---- MODULE Spec2Model ----
(***************************************************************************)
(* SentriChain frontend: the dashboard page (analysis history, overview    *)
(* and recommendation fetches, per-supplier analysis) and the onboarding   *)
(* page (profile save).                                                    *)
(*                                                                         *)
(* Scores are fixed-point hundredths: 70 stands for 0.70.                  *)
(***************************************************************************)
EXTENDS Integers, Sequences, FiniteSets, TLC

VARIABLES
    \* ---- dashboard page (src/frontend/app/dashboard/page.tsx) ----
    phase,              \* "mounting" until the init effect has run, then
                        \* "ready"; "store" when only the history store runs
    user,               \* useState user: FALSE = null
    token,              \* getToken(): FALSE = null
    tab,
    suppliers,          \* useState suppliers: sequence of Supplier
    suppliersReq,       \* getSuppliers(): "none", "pending", "done"
    selectedSupplierId, \* 0 = null
    analysisData,       \* NoData = null
    isLoadingSuppliers,
    isAnalyzing,
    error,              \* "" = null
    history,            \* useState history: a JS value (array or null)
    historyOpen,
    overview,           \* FALSE = null
    overviewLoading,
    overviewError,      \* "" = null
    recs,               \* JNull = null, or the response received
    recsLoading,
    recsError,          \* "" = null
    stored,             \* localStorage item "sc_history"
    pending,            \* analyzeSupplier calls in flight
    calls,              \* number of analyzeSupplier calls issued
    ovPending,          \* getSuppliersOverview calls in flight
    ovCalls,            \* number of getSuppliersOverview calls issued
    recsPending,        \* getRecommendations calls in flight
    recsCalls,          \* number of getRecommendations calls issued
    now,                \* Date.now()
    crashed,            \* a render of the page threw
    recorded,           \* supplier ids the history store driver has recorded
    \* ---- onboarding page (src/frontend/app/page.tsx, OnboardPage) ----
    route,              \* the page the router shows
    loadingExisting,
    step,
    companyName,        \* a sequence of characters
    companyType,
    rawMaterials,
    preferredCountries,
    saving,
    saveError,          \* a text, NoError = null
    obToken,            \* getToken() on the onboarding page: FALSE = null
    cookie,             \* value of the sc_onboarded cookie, "" = not set
    submit,             \* the handleSubmit calls made, in the order made
    \* ---- request routing (src/frontend/proxy.ts) ----
    request,            \* the last request the browser sent, as proxy served it
    \* ---- pure functions of the pages ----
    input,              \* the arguments a function is applied to
    output,             \* what the function returned and left behind
    selected            \* CompareContent: the countries selected, in order

dashVars == <<phase, user, token, tab, suppliers, suppliersReq,
              selectedSupplierId, analysisData, isLoadingSuppliers,
              isAnalyzing, error, history, historyOpen, overview,
              overviewLoading, overviewError, recs, recsLoading, recsError,
              stored, pending, calls, ovPending, ovCalls, recsPending,
              recsCalls, now, crashed, recorded>>

onboardVars == <<route, loadingExisting, step, companyName, companyType,
                 rawMaterials, preferredCountries, saving, saveError, obToken,
                 cookie, submit>>

navVars == <<request>>

fnVars == <<input, output, selected>>

vars == <<dashVars, onboardVars, navVars, fnVars>>

(***************************************************************************)
(* Bounds                                                                  *)
(***************************************************************************)
\* analyzeSupplier calls issued in one session
MaxCalls == 2
\* getSuppliersOverview / getRecommendations calls issued in one session
MaxFetches == 2
\* records applied by the history store driver
MaxRecords == 6
\* handleSubmit calls started on the onboarding page
MaxSubmits == 2

(***************************************************************************)
(* Program constants                                                       *)
(***************************************************************************)
HISTORY_MAX == 5

Tabs == {"overview", "recommendations", "analysis", "compare"}

\* ids of the suppliers the backend serves in this session
CorpusIds == <<1, 2>>
SupplierIds == {CorpusIds[i] : i \in 1..Len(CorpusIds)}
\* final_score values the analysis collaborator returns
Scores == {70}

Min(a, b) == IF a < b THEN a ELSE b

(***************************************************************************)
(* Suppliers and analysis responses                                        *)
(***************************************************************************)
SupplierName(i) == "Supplier " \o ToString(i)
CountryOf(i) == IF i % 2 = 0 THEN "Germany" ELSE "India"
Supplier(i) == [id |-> i, supplier_name |-> SupplierName(i), country |-> CountryOf(i)]
\* what getSuppliers() resolves to
Corpus == [i \in 1..Len(CorpusIds) |-> Supplier(CorpusIds[i])]

\* suppliers.find((s) => s.id === id): the sequence of matches (empty = undefined)
Find(sups, id) == SelectSeq(sups, LAMBDA s : s.id = id)

\* AnalyzeResponse for supplier id; forSupplier is the key the request was made for
Response(id, score) == [forSupplier |-> id, ensemble |-> [final_score |-> score]]
NoData == [forSupplier |-> 0, ensemble |-> [final_score |-> 0]]

(***************************************************************************)
(* Risk classification                                                     *)
(***************************************************************************)
\* scores are in hundredths: 70 is 0.7
\* a riskLabel whose thresholds belong to the band below them
riskLabelAbove(score) ==
    IF score > 70 THEN "High"
    ELSE IF score > 40 THEN "Medium"
    ELSE "Low"

riskLabel(score) ==
    IF score >= 70 THEN "High"
    ELSE IF score >= 40 THEN "Medium"
    ELSE "Low"

\* a riskColor with the thresholds of the composite score
riskColorComposite(score) ==
    IF score >= 60 THEN "text-red-400 bg-red-500/10 border-red-500/20"
    ELSE IF score >= 35
         THEN "text-amber-400 bg-amber-500/10 border-amber-500/20"
    ELSE "text-emerald-400 bg-emerald-500/10 border-emerald-500/20"

riskColor(score) ==
    IF score >= 70 THEN "text-red-400 bg-red-500/10 border-red-500/20"
    ELSE IF score >= 40
         THEN "text-amber-400 bg-amber-500/10 border-amber-500/20"
    ELSE "text-emerald-400 bg-emerald-500/10 border-emerald-500/20"

\* OverviewContent: the level and the colour of a composite score
scoreToRiskStr(score) ==
    IF score >= 60 THEN "high"
    ELSE IF score >= 35 THEN "medium"
    ELSE "low"

scoreColor(score) ==
    IF score >= 60 THEN "text-red-400"
    ELSE IF score >= 35 THEN "text-amber-400"
    ELSE "text-emerald-400"

(***************************************************************************)
(* Texts the code inspects, as sequences of characters                     *)
(***************************************************************************)
UpperCase == <<"A", "B", "C", "D", "E", "F", "G", "H", "I", "J", "K", "L", "M",
               "N", "O", "P", "Q", "R", "S", "T", "U", "V", "W", "X", "Y", "Z">>
LowerCase == <<"a", "b", "c", "d", "e", "f", "g", "h", "i", "j", "k", "l", "m",
               "n", "o", "p", "q", "r", "s", "t", "u", "v", "w", "x", "y", "z">>
\* String.prototype.toLowerCase
toLowerCase(s) ==
    [i \in 1..Len(s) |->
        IF \E k \in 1..Len(UpperCase) : UpperCase[k] = s[i]
        THEN LowerCase[CHOOSE k \in 1..Len(UpperCase) : UpperCase[k] = s[i]]
        ELSE s[i]]
\* String.prototype.includes
includes(s, sub) ==
    \E i \in 0..(Len(s) - Len(sub)) : SubSeq(s, i + 1, i + Len(sub)) = sub
\* String.prototype.trim
RECURSIVE trim(_)
trim(s) ==
    IF s = <<>> THEN s
    ELSE IF Head(s) = " " THEN trim(Tail(s))
    ELSE IF s[Len(s)] = " " THEN trim(SubSeq(s, 1, Len(s) - 1))
    ELSE s
\* Array.prototype.includes
Has(list, item) == \E i \in 1..Len(list) : list[i] = item

\* the sign of the first difference of two sequences of numbers, a proper
\* prefix coming first
RECURSIVE compareSeq(_, _)
compareSeq(x, y) ==
    IF x = <<>> /\ y = <<>> THEN 0
    ELSE IF x = <<>> THEN -1
    ELSE IF y = <<>> THEN 1
    ELSE IF Head(x) < Head(y) THEN -1
    ELSE IF Head(x) > Head(y) THEN 1
    ELSE compareSeq(Tail(x), Tail(y))

\* the place of a character in the alphabet whatever its case (0: not a
\* letter), and its case (0: lower or none, 1: upper)
LetterOf(c) ==
    IF \E k \in 1..Len(LowerCase) : LowerCase[k] = c \/ UpperCase[k] = c
    THEN CHOOSE k \in 1..Len(LowerCase) : LowerCase[k] = c \/ UpperCase[k] = c
    ELSE 0
CaseOf(c) == IF \E k \in 1..Len(UpperCase) : UpperCase[k] = c THEN 1 ELSE 0

\* a.localeCompare(b) in the default collation: the letters decide, and
\* between texts with the same letters lower case comes before upper case
localeCompare(a, b) ==
    LET letters == compareSeq([i \in 1..Len(a) |-> LetterOf(a[i])],
                              [i \in 1..Len(b) |-> LetterOf(b[i])])
    IN  IF letters # 0 THEN letters
        ELSE compareSeq([i \in 1..Len(a) |-> CaseOf(a[i])],
                        [i \in 1..Len(b) |-> CaseOf(b[i])])

(***************************************************************************)
(* History entries                                                         *)
(***************************************************************************)
\* new Date().toLocaleString()
LocaleString(t) == "at " \o ToString(t)

\* the HistoryEntry built by handleSupplierSelect at time t
NewEntry(id, sup, data, t) ==
    [id |-> ToString(t),
     supplierId |-> id,
     supplierName |-> sup.supplier_name,
     country |-> sup.country,
     ensembleScore |-> data.ensemble.final_score,
     riskLevel |-> riskLabel(data.ensemble.final_score),
     timestamp |-> LocaleString(t),
     data |-> data]

\* JS values a history state can hold
JArr(s) == [tag |-> "array", items |-> s]
JNull == [tag |-> "null"]
Entries(h) == IF h.tag = "array" THEN h.items ELSE <<>>

\* the updater without .slice(0, HISTORY_MAX)
RecordNoSlice(prev, entry, id) ==
    <<entry>> \o SelectSeq(prev, LAMBDA h : h.supplierId # id)
\* the updater without .filter(...)
RecordNoFilter(prev, entry, id) ==
    SubSeq(<<entry>> \o prev, 1, Min(HISTORY_MAX, Len(prev) + 1))
\* the updater with the new entry appended instead of prepended
RecordAtEnd(prev, entry, id) ==
    LET all == SelectSeq(prev, LAMBDA h : h.supplierId # id) \o <<entry>>
    IN  SubSeq(all, 1, Min(HISTORY_MAX, Len(all)))
\* [entry, ...prev.filter((h) => h.supplierId !== id)].slice(0, HISTORY_MAX)
Record(prev, entry, id) ==
    LET all == <<entry>> \o SelectSeq(prev, LAMBDA h : h.supplierId # id)
    IN  SubSeq(all, 1, Min(HISTORY_MAX, Len(all)))

(***************************************************************************)
(* Persistence: JSON.stringify / JSON.parse over localStorage["sc_history"]*)
(***************************************************************************)
\* JSON text of a number: its decimal digits, most significant first
RECURSIVE NumText(_)
NumText(n) == IF n < 10 THEN <<n>> ELSE Append(NumText(n \div 10), n % 10)
\* the number a digit text denotes
RECURSIVE ParseNum(_)
ParseNum(t) ==
    IF Len(t) = 1 THEN t[1]
    ELSE 10 * ParseNum(SubSeq(t, 1, Len(t) - 1)) + t[Len(t)]
\* JSON text of a string: the string between double quotes
StrText(s) == <<"\"", s, "\"">>
ParseStr(t) == t[2]

StringifyData(d) ==
    [forSupplier |-> NumText(d.forSupplier),
     ensemble |-> [final_score |-> NumText(d.ensemble.final_score)]]
ParseData(t) ==
    [forSupplier |-> ParseNum(t.forSupplier),
     ensemble |-> [final_score |-> ParseNum(t.ensemble.final_score)]]

\* JSON.stringify of an entry whose ensembleScore is lost
StringifyEntryNoScore(e) ==
    [id |-> StrText(e.id),
     supplierId |-> NumText(e.supplierId),
     supplierName |-> StrText(e.supplierName),
     country |-> StrText(e.country),
     ensembleScore |-> NumText(0),
     riskLevel |-> StrText(e.riskLevel),
     timestamp |-> StrText(e.timestamp),
     data |-> StringifyData(e.data)]
\* JSON.stringify / JSON.parse of a HistoryEntry
StringifyEntry(e) ==
    [id |-> StrText(e.id),
     supplierId |-> NumText(e.supplierId),
     supplierName |-> StrText(e.supplierName),
     country |-> StrText(e.country),
     ensembleScore |-> NumText(e.ensembleScore),
     riskLevel |-> StrText(e.riskLevel),
     timestamp |-> StrText(e.timestamp),
     data |-> StringifyData(e.data)]
ParseEntry(t) ==
    [id |-> ParseStr(t.id),
     supplierId |-> ParseNum(t.supplierId),
     supplierName |-> ParseStr(t.supplierName),
     country |-> ParseStr(t.country),
     ensembleScore |-> ParseNum(t.ensembleScore),
     riskLevel |-> ParseStr(t.riskLevel),
     timestamp |-> ParseStr(t.timestamp),
     data |-> ParseData(t.data)]

\* a localStorage item: absent, or a text that is unparseable, "null", or an array
NoItem == [kind |-> "absent", docs |-> <<>>]
Unparseable == [kind |-> "unparseable", docs |-> <<>>]
NullText == [kind |-> "null", docs |-> <<>>]
JsonStringify(entries) ==
    [kind |-> "array", docs |-> [i \in 1..Len(entries) |-> StringifyEntry(entries[i])]]
\* JSON.parse of a parseable text
JsonParse(raw) ==
    IF raw.kind = "null" THEN JNull
    ELSE JArr([i \in 1..Len(raw.docs) |-> ParseEntry(raw.docs[i])])

\* try { raw = getItem(KEY); return raw ? JSON.parse(raw) : [] } catch { return [] }
loadHistory(raw) ==
    IF raw.kind = "absent" THEN JArr(<<>>)
    ELSE IF raw.kind = "unparseable" THEN JArr(<<>>)
    ELSE JsonParse(raw)

\* localStorage.setItem(KEY, JSON.stringify(entries.slice(0, HISTORY_MAX)))
saveHistory(entries) ==
    JsonStringify(SubSeq(entries, 1, Min(HISTORY_MAX, Len(entries))))

\* entries a stored item holds
Persisted(raw) == IF raw.kind = "array" THEN raw.docs ELSE <<>>

(***************************************************************************)
(* What earlier sessions left in localStorage                              *)
(***************************************************************************)
\* an entry an earlier session recorded for supplier i at time t
OldEntry(i, t) == NewEntry(i, Supplier(i), Response(i, 35), t)
\* a full history: suppliers 6, 5, 4, 3, 1 analysed at times 5..1 (newest first)
OldIds == <<6, 5, 4, 3, 1>>
FullHistory == [k \in 1..HISTORY_MAX |-> OldEntry(OldIds[k], HISTORY_MAX + 1 - k)]
SessionStart == HISTORY_MAX + 1
StoredAtStart ==
    {NoItem, Unparseable, NullText, saveHistory(FullHistory),
     saveHistory(SubSeq(FullHistory, HISTORY_MAX - 1, HISTORY_MAX))}

(***************************************************************************)
(* Dashboard page: initial state                                           *)
(***************************************************************************)
\* the state of the page's hooks after construction
DashConstruct ==
    /\ user = FALSE
    /\ token = FALSE
    /\ tab = "overview"
    /\ suppliers = <<>>
    /\ suppliersReq = "none"
    /\ selectedSupplierId = 0
    /\ analysisData = NoData
    /\ isLoadingSuppliers = TRUE
    /\ isAnalyzing = FALSE
    /\ error = ""
    /\ history = JArr(<<>>)
    /\ historyOpen = FALSE
    /\ overview = FALSE
    /\ overviewLoading = FALSE
    /\ overviewError = ""
    /\ recs = JNull
    /\ recsLoading = FALSE
    /\ recsError = ""
    /\ pending = {}
    /\ calls = 0
    /\ ovPending = 0
    /\ ovCalls = 0
    /\ recsPending = 0
    /\ recsCalls = 0
    /\ now = SessionStart
    /\ crashed = FALSE
    /\ recorded = <<>>

\* saveError === null
NoError == <<>>

\* no function has been applied yet
NoInput == [fn |-> "none"]
NoOutput == [fn |-> "none"]

\* no request has been sent yet
NoRequest == [pathname |-> "", cookie |-> "", response |-> "", location |-> ""]

\* the state of the onboarding page's hooks after construction
OnboardConstruct ==
    /\ loadingExisting = TRUE
    /\ step = 1
    /\ companyName = <<>>
    /\ companyType = ""
    /\ rawMaterials = <<>>
    /\ preferredCountries = <<>>
    /\ saving = FALSE
    /\ saveError = NoError
    /\ submit = <<>>

\* the dashboard, reached by an onboarded session
Init ==
    /\ phase = "mounting"
    /\ DashConstruct
    /\ stored \in StoredAtStart
    /\ route = "/dashboard"
    /\ request = NoRequest
    /\ input = NoInput
    /\ output = NoOutput
    /\ selected = <<>>
    /\ cookie = "1"
    /\ obToken = FALSE
    /\ OnboardConstruct

\* the page is rendered and takes events
Live == phase = "ready" /\ user /\ ~crashed

(***************************************************************************)
(* Effects: each runs after a render in which one of its dependencies      *)
(* changed; t, u, ov, rc are the values of tab, user, overview, recs after  *)
(* the step                                                                *)
(***************************************************************************)
\* useEffect(..., [tab, user, overview]): load overview when tab selected
OverviewEffectRuns(t, u, tk, ov) ==
    /\ t \in {"overview", "compare"}
    /\ ~ov
    /\ u
    /\ tk
OverviewEffect(t, u, tk, ov) ==
    IF OverviewEffectRuns(t, u, tk, ov)
    THEN /\ ovCalls < MaxFetches
         /\ overviewLoading' = TRUE
         /\ ovPending' = ovPending + 1
         /\ ovCalls' = ovCalls + 1
    ELSE UNCHANGED <<overviewLoading, ovPending, ovCalls>>

\* a property that a response does not have
Missing == [tag |-> "undefined"]

\* the supplier cards the recommendation service can rank: supplier 3 ties
\* with 1 and 2 on the match score and is more reliable, 1 and 2 tie on both
RecommendationCards ==
    {[supplier_id |-> 1, supplier_name |-> <<"A", "x", "e", "l">>,
      match_score |-> 90, reliability_score |-> 80],
     [supplier_id |-> 2, supplier_name |-> <<"B", "o", "l", "t">>,
      match_score |-> 90, reliability_score |-> 80],
     [supplier_id |-> 3, supplier_name |-> <<"C", "r", "e", "n">>,
      match_score |-> 90, reliability_score |-> 95],
     [supplier_id |-> 4, supplier_name |-> <<"D", "o", "r", "n">>,
      match_score |-> 50, reliability_score |-> 99]}

\* the list the recommendation service returns for a set of cards: by
\* descending match_score, then descending reliability_score, then
\* ascending name, each entry with its 1-based rank
recommend(cards) ==
    LET before(a, b) ==
            \/ a.match_score > b.match_score
            \/ /\ a.match_score = b.match_score
               /\ a.reliability_score > b.reliability_score
            \/ /\ a.match_score = b.match_score
               /\ a.reliability_score = b.reliability_score
               /\ localeCompare(a.supplier_name, b.supplier_name) < 0
        place(a) == 1 + Cardinality({b \in cards : before(b, a)})
    IN  [k \in 1..Cardinality(cards) |->
            LET card == CHOOSE a \in cards : place(a) = k
            IN  [rank |-> k] @@ card]

\* what getRecommendations() resolves to: a response with a ranked list, an
\* empty list or no list
RecsResponses ==
    {[tag |-> "response", recommendations |-> JArr(recommend(cards))] :
        cards \in SUBSET RecommendationCards}
       \cup {[tag |-> "response", recommendations |-> Missing]}

\* a RecsContent that maps over the list from its end
RecsContentReversed(rc) ==
    IF rc.recommendations.tag # "array" \/ Len(rc.recommendations.items) = 0
    THEN [kind |-> "empty", rows |-> <<>>]
    ELSE [kind |-> "list",
          rows |-> [k \in 1..Len(rc.recommendations.items) |->
                      rc.recommendations.items[
                         Len(rc.recommendations.items) + 1 - k]]]

\* RecsContent: the 'No recommendations yet.' text, or a card for each entry
\* in the order received, #rank first
RecsContent(rc) ==
    IF rc.recommendations.tag # "array" \/ Len(rc.recommendations.items) = 0
    THEN [kind |-> "empty", rows |-> <<>>]
    ELSE [kind |-> "list",
          rows |-> [k \in 1..Len(rc.recommendations.items) |->
                      rc.recommendations.items[k]]]

\* {recs && <RecsContent recs={recs} />}
RecsPanel(rc) ==
    IF rc = JNull THEN [kind |-> "none", rows |-> <<>>] ELSE RecsContent(rc)

\* an effect that takes a response without entries for no response
RecsEffectRunsOnEmpty(t, u, tk, rc) ==
    /\ t = "recommendations"
    /\ rc = JNull \/ RecsContent(rc).kind = "empty"
    /\ u
    /\ tk

\* useEffect(..., [tab, user, recs]): load recommendations when tab selected
RecsEffectRuns(t, u, tk, rc) ==
    /\ t = "recommendations"
    /\ rc = JNull
    /\ u
    /\ tk
RecsEffect(t, u, tk, rc) ==
    IF RecsEffectRuns(t, u, tk, rc)
    THEN /\ recsCalls < MaxFetches
         /\ recsLoading' = TRUE
         /\ recsPending' = recsPending + 1
         /\ recsCalls' = recsCalls + 1
    ELSE UNCHANGED <<recsLoading, recsPending, recsCalls>>

(***************************************************************************)
(* Dashboard page: mount                                                   *)
(***************************************************************************)
\* what ensureSession() leaves behind: <<stored user, token>>
Sessions == {<<TRUE, TRUE>>, <<TRUE, FALSE>>, <<FALSE, FALSE>>}

\* the init effect, the render that follows it (history.length in the header
\* throws on a history that is null) and the effects that render triggers
InitSession(sess) ==
    /\ phase = "mounting"
    /\ phase' = "ready"
    /\ user' = sess[1]
    /\ token' = sess[2]
    /\ history' = loadHistory(stored)
    /\ crashed' = (sess[1] /\ loadHistory(stored).tag # "array")
    /\ IF sess[1] /\ loadHistory(stored).tag = "array"
       THEN /\ suppliersReq' = "pending"
            /\ OverviewEffect(tab, sess[1], sess[2], overview)
       ELSE UNCHANGED <<suppliersReq, overviewLoading, ovPending, ovCalls>>
    /\ UNCHANGED <<tab, suppliers, selectedSupplierId, analysisData,
                   isLoadingSuppliers, isAnalyzing, error, historyOpen,
                   overview, overviewError, recs, recsLoading, recsError,
                   stored, pending, calls, recsPending, recsCalls, now,
                   recorded>>
    /\ UNCHANGED onboardVars
    /\ UNCHANGED navVars
    /\ UNCHANGED fnVars

\* getSuppliers().then(setSuppliers).finally(...)
SuppliersResolve ==
    /\ Live
    /\ suppliersReq = "pending"
    /\ suppliersReq' = "done"
    /\ suppliers' = Corpus
    /\ isLoadingSuppliers' = FALSE
    /\ UNCHANGED <<phase, user, token, tab, selectedSupplierId, analysisData,
                   isAnalyzing, error, history, historyOpen, overview,
                   overviewLoading, overviewError, recs, recsLoading,
                   recsError, stored, pending, calls, ovPending, ovCalls,
                   recsPending, recsCalls, now, crashed, recorded>>
    /\ UNCHANGED onboardVars
    /\ UNCHANGED navVars
    /\ UNCHANGED fnVars

\* a failure of a collaborator call: an Error with a message, or another value
Failures == {[isError |-> TRUE, message |-> "HTTP 500"],
             [isError |-> FALSE, message |-> ""]}
\* e instanceof Error ? e.message : fallback
MessageOf(e, fallback) == IF e.isError THEN e.message ELSE fallback

\* getSuppliers().catch(() => setError(...)).finally(...): the handler takes
\* no argument, the failure e it was rejected with is dropped
SuppliersReject(e) ==
    /\ e \in Failures
    /\ Live
    /\ suppliersReq = "pending"
    /\ suppliersReq' = "done"
    /\ error' = "Failed to load suppliers. Is the backend running?"
    /\ isLoadingSuppliers' = FALSE
    /\ UNCHANGED <<phase, user, token, tab, suppliers, selectedSupplierId,
                   analysisData, isAnalyzing, history, historyOpen, overview,
                   overviewLoading, overviewError, recs, recsLoading,
                   recsError, stored, pending, calls, ovPending, ovCalls,
                   recsPending, recsCalls, now, crashed, recorded>>
    /\ UNCHANGED onboardVars
    /\ UNCHANGED navVars
    /\ UNCHANGED fnVars

(***************************************************************************)
(* Tabs, overview and recommendations                                      *)
(***************************************************************************)
\* tab bar: onClick={() => setTab(id)}, and the effects of the new tab
SetTab(t) ==
    /\ Live
    /\ t # tab
    /\ tab' = t
    /\ OverviewEffect(t, user, token, overview)
    /\ RecsEffect(t, user, token, recs)
    /\ UNCHANGED <<phase, user, token, suppliers, suppliersReq,
                   selectedSupplierId, analysisData, isLoadingSuppliers,
                   isAnalyzing, error, history, historyOpen, overview,
                   overviewError, recs, recsError, stored, pending, calls,
                   now, crashed, recorded>>
    /\ UNCHANGED onboardVars
    /\ UNCHANGED navVars
    /\ UNCHANGED fnVars

\* getSuppliersOverview(token).then(setOverview).finally(...)
OverviewResolve ==
    /\ Live
    /\ ovPending > 0
    /\ ovPending' = ovPending - 1
    /\ overview' = TRUE
    /\ overviewLoading' = FALSE
    /\ UNCHANGED <<phase, user, token, tab, suppliers, suppliersReq,
                   selectedSupplierId, analysisData, isLoadingSuppliers,
                   isAnalyzing, error, history, historyOpen, overviewError,
                   recs, recsLoading, recsError, stored, pending, calls,
                   ovCalls, recsPending, recsCalls, now, crashed, recorded>>
    /\ UNCHANGED onboardVars
    /\ UNCHANGED navVars
    /\ UNCHANGED fnVars

\* getSuppliersOverview(token).catch(...).finally(...)
OverviewReject(e) ==
    /\ Live
    /\ ovPending > 0
    /\ ovPending' = ovPending - 1
    /\ overviewError' = MessageOf(e, "Failed to load overview")
    /\ overviewLoading' = FALSE
    /\ UNCHANGED <<phase, user, token, tab, suppliers, suppliersReq,
                   selectedSupplierId, analysisData, isLoadingSuppliers,
                   isAnalyzing, error, history, historyOpen, overview,
                   recs, recsLoading, recsError, stored, pending, calls,
                   ovCalls, recsPending, recsCalls, now, crashed, recorded>>
    /\ UNCHANGED onboardVars
    /\ UNCHANGED navVars
    /\ UNCHANGED fnVars

\* getRecommendations(token).then(setRecs).finally(...), and the effect that
\* the render with the new recs runs
RecsResolve(resp) ==
    /\ Live
    /\ recsPending > 0
    /\ recs' = resp
    /\ IF RecsEffectRuns(tab, user, token, resp)
       THEN /\ recsCalls < MaxFetches
            /\ recsLoading' = TRUE
            /\ recsPending' = recsPending
            /\ recsCalls' = recsCalls + 1
       ELSE /\ recsLoading' = FALSE
            /\ recsPending' = recsPending - 1
            /\ recsCalls' = recsCalls
    /\ UNCHANGED <<phase, user, token, tab, suppliers, suppliersReq,
                   selectedSupplierId, analysisData, isLoadingSuppliers,
                   isAnalyzing, error, history, historyOpen, overview,
                   overviewLoading, overviewError, recsError, stored, pending,
                   calls, ovPending, ovCalls, now, crashed, recorded>>
    /\ UNCHANGED onboardVars
    /\ UNCHANGED navVars
    /\ UNCHANGED fnVars

\* getRecommendations(token).catch(...).finally(...)
RecsReject(e) ==
    /\ Live
    /\ recsPending > 0
    /\ recsPending' = recsPending - 1
    /\ recsError' = MessageOf(e, "Failed to load recommendations")
    /\ recsLoading' = FALSE
    /\ UNCHANGED <<phase, user, token, tab, suppliers, suppliersReq,
                   selectedSupplierId, analysisData, isLoadingSuppliers,
                   isAnalyzing, error, history, historyOpen, overview,
                   overviewLoading, overviewError, recs, stored, pending,
                   calls, ovPending, ovCalls, recsCalls, now, crashed,
                   recorded>>
    /\ UNCHANGED onboardVars
    /\ UNCHANGED navVars
    /\ UNCHANGED fnVars

(***************************************************************************)
(* Per-supplier analysis                                                   *)
(***************************************************************************)
\* handleSupplierSelect(id) up to its await: the call in flight keeps the
\* suppliers list the callback closed over
handleSupplierSelect(id) ==
    /\ calls < MaxCalls
    /\ calls' = calls + 1
    /\ selectedSupplierId' = id
    /\ isAnalyzing' = TRUE
    /\ error' = ""
    /\ analysisData' = NoData
    /\ pending' = pending \cup {[n |-> calls + 1, id |-> id, sups |-> suppliers]}

\* SupplierSelector onSelect (analysis tab; disabled while isAnalyzing)
SelectSupplier(id) ==
    /\ Live
    /\ tab = "analysis"
    /\ ~isLoadingSuppliers
    /\ ~isAnalyzing
    /\ Find(suppliers, id) # <<>>
    /\ handleSupplierSelect(id)
    /\ UNCHANGED <<phase, user, token, tab, suppliers, suppliersReq,
                   isLoadingSuppliers, history, historyOpen, overview,
                   overviewLoading, overviewError, recs, recsLoading,
                   recsError, stored, ovPending, ovCalls, recsPending,
                   recsCalls, now, crashed, recorded>>
    /\ UNCHANGED onboardVars
    /\ UNCHANGED navVars
    /\ UNCHANGED fnVars

\* OverviewContent onDeepAnalyze: setTab("analysis"); handleSupplierSelect(id)
DeepAnalyzeFromOverview(id) ==
    /\ Live
    /\ tab = "overview"
    /\ overview
    /\ tab' = "analysis"
    /\ handleSupplierSelect(id)
    /\ UNCHANGED <<phase, user, token, suppliers, suppliersReq,
                   isLoadingSuppliers, history, historyOpen, overview,
                   overviewLoading, overviewError, recs, recsLoading,
                   recsError, stored, ovPending, ovCalls, recsPending,
                   recsCalls, now, crashed, recorded>>
    /\ UNCHANGED onboardVars
    /\ UNCHANGED navVars
    /\ UNCHANGED fnVars

\* RecsContent onDeepAnalyze: setTab("analysis"); handleSupplierSelect(id)
DeepAnalyzeFromRecs(id) ==
    /\ Live
    /\ tab = "recommendations"
    /\ \E k \in 1..Len(RecsPanel(recs).rows) :
          RecsPanel(recs).rows[k].supplier_id = id
    /\ tab' = "analysis"
    /\ handleSupplierSelect(id)
    /\ UNCHANGED <<phase, user, token, suppliers, suppliersReq,
                   isLoadingSuppliers, history, historyOpen, overview,
                   overviewLoading, overviewError, recs, recsLoading,
                   recsError, stored, ovPending, ovCalls, recsPending,
                   recsCalls, now, crashed, recorded>>
    /\ UNCHANGED onboardVars
    /\ UNCHANGED navVars
    /\ UNCHANGED fnVars

\* the updater without saveHistory(updated): the stored item stays
RecordWithoutSave(prev, entry, id) ==
    [history |-> JArr(Record(prev, entry, id)), stored |-> stored]

\* the setHistory updater of handleSupplierSelect: the new history state and
\* the item saveHistory writes
RecordAndSave(prev, entry, id) ==
    [history |-> JArr(Record(prev, entry, id)),
     stored |-> saveHistory(Record(prev, entry, id))]

\* handleSupplierSelect after its await, analyzeSupplier resolved with data
AnalyzeResolve(c, score) ==
    /\ Live
    /\ c \in pending
    /\ pending' = pending \ {c}
    /\ now' = now + 1
    /\ analysisData' = Response(c.id, score)
    /\ IF Find(c.sups, c.id) # <<>>
       THEN LET entry == NewEntry(c.id, Find(c.sups, c.id)[1],
                                  Response(c.id, score), now')
                upd == RecordAndSave(Entries(history), entry, c.id)
            IN  /\ history' = upd.history
                /\ stored' = upd.stored
       ELSE UNCHANGED <<history, stored>>
    /\ isAnalyzing' = FALSE
    /\ UNCHANGED <<phase, user, token, tab, suppliers, suppliersReq,
                   selectedSupplierId, isLoadingSuppliers, error, historyOpen,
                   overview, overviewLoading, overviewError, recs,
                   recsLoading, recsError, calls, ovPending, ovCalls,
                   recsPending, recsCalls, crashed, recorded>>
    /\ UNCHANGED onboardVars
    /\ UNCHANGED navVars
    /\ UNCHANGED fnVars

\* handleSupplierSelect after its await, analyzeSupplier rejected with e
AnalyzeReject(c, e) ==
    /\ Live
    /\ c \in pending
    /\ pending' = pending \ {c}
    /\ error' = MessageOf(e, "Analysis failed.")
    /\ isAnalyzing' = FALSE
    /\ UNCHANGED <<phase, user, token, tab, suppliers, suppliersReq,
                   selectedSupplierId, analysisData, isLoadingSuppliers,
                   history, historyOpen, overview, overviewLoading,
                   overviewError, recs, recsLoading, recsError, stored, calls,
                   ovPending, ovCalls, recsPending, recsCalls, now, crashed,
                   recorded>>
    /\ UNCHANGED onboardVars
    /\ UNCHANGED navVars
    /\ UNCHANGED fnVars

(***************************************************************************)
(* History sidebar                                                         *)
(***************************************************************************)
\* header button: setHistoryOpen((v) => !v)
ToggleHistory ==
    /\ Live
    /\ historyOpen' = ~historyOpen
    /\ UNCHANGED <<phase, user, token, tab, suppliers, suppliersReq,
                   selectedSupplierId, analysisData, isLoadingSuppliers,
                   isAnalyzing, error, history, overview, overviewLoading,
                   overviewError, recs, recsLoading, recsError, stored,
                   pending, calls, ovPending, ovCalls, recsPending, recsCalls,
                   now, crashed, recorded>>
    /\ UNCHANGED onboardVars
    /\ UNCHANGED navVars
    /\ UNCHANGED fnVars

\* a restore that also moves the entry to the front of the history and saves
restoreAndPromote(i) ==
    /\ Live
    /\ historyOpen
    /\ i \in 1..Len(Entries(history))
    /\ selectedSupplierId' = Entries(history)[i].supplierId
    /\ analysisData' = Entries(history)[i].data
    /\ historyOpen' = FALSE
    /\ tab' = "analysis"
    /\ history' = JArr(<<Entries(history)[i]>>
                        \o SubSeq(Entries(history), 1, i - 1)
                        \o SubSeq(Entries(history), i + 1,
                                  Len(Entries(history))))
    /\ stored' = saveHistory(Entries(history'))
    /\ UNCHANGED <<phase, user, token, suppliers, suppliersReq,
                   isLoadingSuppliers, isAnalyzing, error, overview,
                   overviewLoading, overviewError, recs, recsLoading,
                   recsError, pending, calls, ovPending, ovCalls,
                   recsPending, recsCalls, now, crashed, recorded>>
    /\ UNCHANGED onboardVars
    /\ UNCHANGED navVars
    /\ UNCHANGED fnVars

\* restoreFromHistory(entry), entry the i-th of the sidebar
restoreFromHistory(i) ==
    /\ Live
    /\ historyOpen
    /\ i \in 1..Len(Entries(history))
    /\ selectedSupplierId' = Entries(history)[i].supplierId
    /\ analysisData' = Entries(history)[i].data
    /\ historyOpen' = FALSE
    /\ tab' = "analysis"
    /\ UNCHANGED <<phase, user, token, suppliers, suppliersReq,
                   isLoadingSuppliers, isAnalyzing, error, history, overview,
                   overviewLoading, overviewError, recs, recsLoading,
                   recsError, stored, pending, calls, ovPending, ovCalls,
                   recsPending, recsCalls, now, crashed, recorded>>
    /\ UNCHANGED onboardVars
    /\ UNCHANGED navVars
    /\ UNCHANGED fnVars

\* "Clear all" without saveHistory([])
ClearAllMemoryOnly ==
    /\ Live
    /\ historyOpen
    /\ history' = JArr(<<>>)
    /\ UNCHANGED <<phase, user, token, tab, suppliers, suppliersReq,
                   selectedSupplierId, analysisData, isLoadingSuppliers,
                   isAnalyzing, error, historyOpen, overview, overviewLoading,
                   overviewError, recs, recsLoading, recsError, stored,
                   pending, calls, ovPending, ovCalls, recsPending, recsCalls,
                   now, crashed, recorded>>
    /\ UNCHANGED onboardVars
    /\ UNCHANGED navVars
    /\ UNCHANGED fnVars

\* "Clear all": setHistory([]); saveHistory([])
ClearAll ==
    /\ Live
    /\ historyOpen
    /\ history' = JArr(<<>>)
    /\ stored' = saveHistory(<<>>)
    /\ UNCHANGED <<phase, user, token, tab, suppliers, suppliersReq,
                   selectedSupplierId, analysisData, isLoadingSuppliers,
                   isAnalyzing, error, historyOpen, overview, overviewLoading,
                   overviewError, recs, recsLoading, recsError, pending,
                   calls, ovPending, ovCalls, recsPending, recsCalls, now,
                   crashed, recorded>>
    /\ UNCHANGED onboardVars
    /\ UNCHANGED navVars
    /\ UNCHANGED fnVars

(***************************************************************************)
(* Dashboard specifications                                                *)
(*                                                                         *)
(* SpecDashboard is the whole page.  The page's two concerns meet only in   *)
(* tab, user, token, overview and recs, and each is checked in its own      *)
(* specification: SpecFetch (mount, tabs, overview and recommendation       *)
(* fetches) and SpecAnalysis (mount, supplier list, analyses, history), in  *)
(* which the user moves between the Overview and Deep Analysis tabs.        *)
(***************************************************************************)
Next ==
    \/ \E sess \in Sessions : InitSession(sess)
    \/ SuppliersResolve
    \/ \E e \in Failures : SuppliersReject(e)
    \/ \E t \in Tabs : SetTab(t)
    \/ OverviewResolve
    \/ \E e \in Failures : OverviewReject(e)
    \/ \E resp \in RecsResponses : RecsResolve(resp)
    \/ \E e \in Failures : RecsReject(e)
    \/ \E id \in SupplierIds : SelectSupplier(id)
    \/ \E id \in SupplierIds : DeepAnalyzeFromOverview(id)
    \/ \E id \in SupplierIds : DeepAnalyzeFromRecs(id)
    \/ \E c \in pending, score \in Scores : AnalyzeResolve(c, score)
    \/ \E c \in pending, e \in Failures : AnalyzeReject(c, e)
    \/ ToggleHistory
    \/ \E i \in 1..HISTORY_MAX : restoreFromHistory(i)
    \/ ClearAll

SpecDashboard == Init /\ [][Next]_vars

NextFetch ==
    \/ \E sess \in Sessions : InitSession(sess)
    \/ \E t \in Tabs : SetTab(t)
    \/ OverviewResolve
    \/ \E e \in Failures : OverviewReject(e)
    \/ \E resp \in RecsResponses : RecsResolve(resp)
    \/ \E e \in Failures : RecsReject(e)

SpecFetch == Init /\ [][NextFetch]_vars

AnalysisTabs == {"overview", "analysis"}

NextAnalysis ==
    \/ \E sess \in Sessions : InitSession(sess)
    \/ SuppliersResolve
    \/ \E e \in Failures : SuppliersReject(e)
    \/ \E t \in AnalysisTabs : SetTab(t)
    \/ OverviewResolve
    \/ \E id \in SupplierIds : SelectSupplier(id)
    \/ \E id \in SupplierIds : DeepAnalyzeFromOverview(id)
    \/ \E c \in pending, score \in Scores : AnalyzeResolve(c, score)
    \/ \E c \in pending, e \in Failures : AnalyzeReject(c, e)
    \/ ToggleHistory
    \/ \E i \in 1..HISTORY_MAX : restoreFromHistory(i)
    \/ ClearAll

\* the history is absent, or the full history of earlier sessions
InitAnalysis == Init /\ stored \in {NoItem, saveHistory(FullHistory)}

SpecAnalysis == InitAnalysis /\ [][NextAnalysis]_vars

(***************************************************************************)
(* The history store alone: records applied one after the other to an      *)
(* empty history, each saved, and the page reloaded from what was saved     *)
(***************************************************************************)
RecordIds == {1, 2, 3, 4, 5, 6}
\* the final_score of the analysis recorded for supplier s
ScoreFor(s) == (s * 23) % 101

InitStore ==
    /\ phase = "store"
    /\ DashConstruct
    /\ stored = NoItem
    /\ route = "/dashboard"
    /\ request = NoRequest
    /\ input = NoInput
    /\ output = NoOutput
    /\ selected = <<>>
    /\ cookie = "1"
    /\ obToken = FALSE
    /\ OnboardConstruct

\* the setHistory updater of handleSupplierSelect, for an analysis of s
StoreRecord(s) ==
    /\ phase = "store"
    /\ Len(recorded) < MaxRecords
    /\ now' = now + 1
    /\ recorded' = Append(recorded, s)
    /\ LET entry == NewEntry(s, Supplier(s), Response(s, ScoreFor(s)), now')
           upd == RecordAndSave(Entries(history), entry, s)
       IN  /\ history' = upd.history
           /\ stored' = upd.stored
    /\ UNCHANGED <<phase, user, token, tab, suppliers, suppliersReq,
                   selectedSupplierId, analysisData, isLoadingSuppliers,
                   isAnalyzing, error, historyOpen, overview, overviewLoading,
                   overviewError, recs, recsLoading, recsError, pending,
                   calls, ovPending, ovCalls, recsPending, recsCalls, crashed>>
    /\ UNCHANGED onboardVars
    /\ UNCHANGED navVars
    /\ UNCHANGED fnVars

\* a reload of the page: setHistory(loadHistory())
StoreReload ==
    /\ phase = "store"
    /\ history' = loadHistory(stored)
    /\ UNCHANGED <<phase, user, token, tab, suppliers, suppliersReq,
                   selectedSupplierId, analysisData, isLoadingSuppliers,
                   isAnalyzing, error, historyOpen, overview, overviewLoading,
                   overviewError, recs, recsLoading, recsError, stored,
                   pending, calls, ovPending, ovCalls, recsPending, recsCalls,
                   now, crashed, recorded>>
    /\ UNCHANGED onboardVars
    /\ UNCHANGED navVars
    /\ UNCHANGED fnVars

NextStore ==
    \/ \E s \in RecordIds : StoreRecord(s)
    \/ StoreReload

SpecStore == InitStore /\ [][NextStore]_vars

(***************************************************************************)
(* Onboarding page (app/page.tsx).  A text the code inspects is a sequence  *)
(* of characters; a text that is only displayed is a single chunk.          *)
(***************************************************************************)
\* the company names typed into the form
CompanyNames == {<<>>, <<" ">>, <<"A", "c", "m", "e">>}
\* the industries offered, and the materials offered for each
COMPANY_TYPES == <<"Electronics", "Automotive">>
MATERIALS_BY_TYPE ==
    [Electronics |-> <<"Semiconductors", "Batteries">>,
     Automotive |-> <<"Batteries">>,
     Other |-> <<"Semiconductors", "Batteries">>]
EXPORT_COUNTRIES == <<"China", "India">>
\* MATERIALS_BY_TYPE[companyType] ?? MATERIALS_BY_TYPE["Other"]
availableMaterials(type) ==
    IF type \in DOMAIN MATERIALS_BY_TYPE
    THEN MATERIALS_BY_TYPE[type]
    ELSE MATERIALS_BY_TYPE["Other"]
\* every material and every country a button is rendered for
Materials ==
    UNION {{MATERIALS_BY_TYPE[t][i] : i \in 1..Len(MATERIALS_BY_TYPE[t])} :
           t \in DOMAIN MATERIALS_BY_TYPE}
Countries == {EXPORT_COUNTRIES[i] : i \in 1..Len(EXPORT_COUNTRIES)}
\* the values of the industry select: the placeholder and COMPANY_TYPES
TypeOptions == {""} \cup {COMPANY_TYPES[i] : i \in 1..Len(COMPANY_TYPES)}

\* the company-type effect: prev.filter((m) => availableMaterials.includes(m))
KeepAvailable(prev, type) ==
    SelectSeq(prev, LAMBDA m : Has(availableMaterials(type), m))
\* a toggle that adds the item whether or not the list has it
toggleItemAppendOnly(list, item) == Append(list, item)
\* toggleItem(list, setList, item): the list handed to setList
toggleItem(list, item) ==
    IF Has(list, item)
    THEN SelectSeq(list, LAMBDA x : x # item)
    ELSE Append(list, item)

\* a Continue button that is never disabled
canProceedAlways == TRUE
\* const canProceed = ...
canProceed ==
    IF step = 1 THEN Len(trim(companyName)) > 0 /\ companyType # ""
    ELSE IF step = 2 THEN Len(rawMaterials) > 0
    ELSE IF step = 3 THEN Len(preferredCountries) > 0
    ELSE TRUE

\* what getOnboardProfile resolves with: no profile, or a saved profile
Profiles ==
    {[present |-> FALSE, company_name |-> <<>>, company_type |-> "",
      raw_materials |-> <<>>, preferred_countries |-> <<>>],
     [present |-> TRUE, company_name |-> <<"A", "c", "m", "e">>,
      company_type |-> "Electronics",
      raw_materials |-> <<"Semiconductors">>,
      preferred_countries |-> <<"China">>],
     [present |-> TRUE, company_name |-> <<"A", "c", "m", "e">>,
      company_type |-> "Automotive",
      raw_materials |-> <<"Semiconductors", "Batteries">>,
      preferred_countries |-> <<>>]}

\* the form is rendered and takes events
Shown == route = "/onboard" /\ ~loadingExisting

\* the onboarding page, reached with or without a token in storage, by a
\* browser that is or is not onboarded already (profile editing)
InitOnboard ==
    /\ phase = "mounting"
    /\ DashConstruct
    /\ stored = NoItem
    /\ route = "/onboard"
    /\ request = NoRequest
    /\ input = NoInput
    /\ output = NoOutput
    /\ selected = <<>>
    /\ cookie \in {"", "1"}
    /\ obToken \in BOOLEAN
    /\ OnboardConstruct

\* the load-existing effect: a token is obtained if none is stored (got: the
\* outcome of ensureSession), the profile p is fetched and copied into the
\* form, and the company-type effect filters the materials copied
LoadExisting(got, p) ==
    /\ route = "/onboard"
    /\ loadingExisting
    /\ loadingExisting' = FALSE
    /\ obToken' = (obToken \/ got)
    /\ IF obToken' /\ p.present
       THEN /\ companyName' = p.company_name
            /\ companyType' = p.company_type
            /\ rawMaterials' = IF p.company_type = companyType
                               THEN p.raw_materials
                               ELSE KeepAvailable(p.raw_materials,
                                                  p.company_type)
            /\ preferredCountries' = p.preferred_countries
       ELSE UNCHANGED <<companyName, companyType, rawMaterials,
                        preferredCountries>>
    /\ UNCHANGED <<route, step, saving, saveError, cookie, submit>>
    /\ UNCHANGED dashVars
    /\ UNCHANGED navVars
    /\ UNCHANGED fnVars

\* step 1, company name input: setCompanyName(e.target.value)
SetCompanyName(n) ==
    /\ Shown
    /\ step = 1
    /\ n # companyName
    /\ companyName' = n
    /\ UNCHANGED <<route, loadingExisting, step, companyType, rawMaterials,
                   preferredCountries, saving, saveError, obToken, cookie,
                   submit>>
    /\ UNCHANGED dashVars
    /\ UNCHANGED navVars
    /\ UNCHANGED fnVars

\* step 1, industry select: setCompanyType(e.target.value), and the
\* company-type effect that runs because companyType changed
SetCompanyType(t) ==
    /\ Shown
    /\ step = 1
    /\ t # companyType
    /\ companyType' = t
    /\ rawMaterials' = KeepAvailable(rawMaterials, t)
    /\ UNCHANGED <<route, loadingExisting, step, companyName,
                   preferredCountries, saving, saveError, obToken, cookie,
                   submit>>
    /\ UNCHANGED dashVars
    /\ UNCHANGED navVars
    /\ UNCHANGED fnVars

\* step 2, material button: toggleItem(rawMaterials, setRawMaterials, m)
ToggleMaterial(m) ==
    /\ Shown
    /\ step = 2
    /\ Has(availableMaterials(companyType), m)
    /\ rawMaterials' = toggleItem(rawMaterials, m)
    /\ UNCHANGED <<route, loadingExisting, step, companyName, companyType,
                   preferredCountries, saving, saveError, obToken, cookie,
                   submit>>
    /\ UNCHANGED dashVars
    /\ UNCHANGED navVars
    /\ UNCHANGED fnVars

\* step 3, country button: toggleItem(preferredCountries, ..., name)
ToggleCountry(c) ==
    /\ Shown
    /\ step = 3
    /\ Has(EXPORT_COUNTRIES, c)
    /\ preferredCountries' = toggleItem(preferredCountries, c)
    /\ UNCHANGED <<route, loadingExisting, step, companyName, companyType,
                   rawMaterials, saving, saveError, obToken, cookie, submit>>
    /\ UNCHANGED dashVars
    /\ UNCHANGED navVars
    /\ UNCHANGED fnVars

\* Back: setStep((s) => Math.max(1, s - 1)), disabled at step 1
Back ==
    /\ Shown
    /\ step # 1
    /\ step' = IF step - 1 > 1 THEN step - 1 ELSE 1
    /\ UNCHANGED <<route, loadingExisting, companyName, companyType,
                   rawMaterials, preferredCountries, saving, saveError,
                   obToken, cookie, submit>>
    /\ UNCHANGED dashVars
    /\ UNCHANGED navVars
    /\ UNCHANGED fnVars

\* Continue: setStep((s) => s + 1), shown below step 4, disabled unless
\* canProceed
Continue ==
    /\ Shown
    /\ step < 4
    /\ canProceed
    /\ step' = step + 1
    /\ UNCHANGED <<route, loadingExisting, companyName, companyType,
                   rawMaterials, preferredCountries, saving, saveError,
                   obToken, cookie, submit>>
    /\ UNCHANGED dashVars
    /\ UNCHANGED navVars
    /\ UNCHANGED fnVars

(***************************************************************************)
(* handleSubmit.  submit[k] is the k-th call: its position (pc), the        *)
(* number of saveOnboardProfile calls it issued (saves) and of clearSession *)
(* calls it made (cleared), and the form values its doSave closed over.     *)
(***************************************************************************)
CouldNotReach ==
    <<"Could not reach the backend. Please refresh and try again.">>
FailedToSave == <<"Failed to save profile.">>
AuthenticationFailed ==
    <<"Authentication failed. Please refresh the page and try again.">>

\* how saveOnboardProfile fails: the backend refused the token
\* (unauthorized), or another failure; an Error with a message, or another
\* value
SaveFailures ==
    {[isError |-> TRUE, unauthorized |-> TRUE,
      message |-> <<"S", "e", "s", "s", "i", "o", "n", " ",
                    "e", "x", "p", "i", "r", "e", "d">>],
     [isError |-> TRUE, unauthorized |-> TRUE,
      message |-> <<"H", "T", "T", "P", " ", "4", "0", "1">>],
     [isError |-> TRUE, unauthorized |-> FALSE,
      message |-> <<"H", "T", "T", "P", " ", "5", "0", "0">>],
     [isError |-> FALSE, unauthorized |-> FALSE, message |-> <<>>]}

\* the test without toLowerCase
TokenExpiredCaseSensitive(msg) ==
    \/ includes(msg, <<"s", "e", "s", "s", "i", "o", "n", " ",
                       "e", "x", "p", "i", "r", "e", "d">>)
    \/ includes(msg, <<"4", "0", "1">>)
\* msg.toLowerCase().includes("session expired") || msg.includes("401")
TokenExpired(msg) ==
    \/ includes(toLowerCase(msg), <<"s", "e", "s", "s", "i", "o", "n", " ",
                                    "e", "x", "p", "i", "r", "e", "d">>)
    \/ includes(msg, <<"4", "0", "1">>)

\* the values doSave sends
Payload ==
    [company_name |-> companyName, company_type |-> companyType,
     raw_materials |-> rawMaterials,
     preferred_countries |-> preferredCountries]

\* "Go to Dashboard": handleSubmit up to its first pending call, which is
\* saveOnboardProfile if a token is stored and ensureSession if not
handleSubmit ==
    /\ Shown
    /\ step = 4
    /\ ~saving
    /\ Len(submit) < MaxSubmits
    /\ IF obToken
       THEN /\ submit' = Append(submit, [pc |-> "save1", saves |-> 1,
                                         cleared |-> 0, payload |-> Payload])
            /\ saving' = TRUE
            /\ saveError' = NoError
       ELSE /\ submit' = Append(submit, [pc |-> "ensure", saves |-> 0,
                                         cleared |-> 0, payload |-> Payload])
            /\ UNCHANGED <<saving, saveError>>
    /\ UNCHANGED <<route, loadingExisting, step, companyName, companyType,
                   rawMaterials, preferredCountries, obToken, cookie>>
    /\ UNCHANGED dashVars
    /\ UNCHANGED navVars
    /\ UNCHANGED fnVars

\* after await ensureSession(), which left a token (got) or none
EnsureDone(k, got) ==
    /\ k \in DOMAIN submit
    /\ submit[k].pc = "ensure"
    /\ obToken' = (obToken \/ got)
    /\ IF obToken'
       THEN /\ submit' = [submit EXCEPT ![k].pc = "save1", ![k].saves = @ + 1]
            /\ saving' = TRUE
            /\ saveError' = NoError
       ELSE /\ submit' = [submit EXCEPT ![k].pc = "done"]
            /\ saveError' = CouldNotReach
            /\ UNCHANGED saving
    /\ UNCHANGED <<route, loadingExisting, step, companyName, companyType,
                   rawMaterials, preferredCountries, cookie>>
    /\ UNCHANGED dashVars
    /\ UNCHANGED navVars
    /\ UNCHANGED fnVars

\* doSave after its await (the first call): the cookie, router.push, and the
\* finally of handleSubmit
Save1Resolve(k) ==
    /\ k \in DOMAIN submit
    /\ submit[k].pc = "save1"
    /\ cookie' = "1"
    /\ route' = "/dashboard"
    /\ saving' = FALSE
    /\ submit' = [submit EXCEPT ![k].pc = "done"]
    /\ UNCHANGED <<loadingExisting, step, companyName, companyType,
                   rawMaterials, preferredCountries, saveError, obToken>>
    /\ UNCHANGED dashVars
    /\ UNCHANGED navVars
    /\ UNCHANGED fnVars

\* the catch of handleSubmit when doSave sets the cookie before its await
Save1RejectMarked(k, e) ==
    /\ k \in DOMAIN submit
    /\ submit[k].pc = "save1"
    /\ cookie' = "1"
    /\ IF TokenExpired(MessageOf(e, FailedToSave))
       THEN /\ obToken' = FALSE
            /\ submit' = [submit EXCEPT ![k].pc = "refresh",
                                        ![k].cleared = @ + 1]
            /\ UNCHANGED <<saving, saveError>>
       ELSE /\ saveError' = MessageOf(e, FailedToSave)
            /\ saving' = FALSE
            /\ submit' = [submit EXCEPT ![k].pc = "done"]
            /\ UNCHANGED obToken
    /\ UNCHANGED <<route, loadingExisting, step, companyName, companyType,
                   rawMaterials, preferredCountries>>
    /\ UNCHANGED dashVars
    /\ UNCHANGED navVars
    /\ UNCHANGED fnVars

\* the catch of handleSubmit, the first saveOnboardProfile rejected with e
Save1Reject(k, e) ==
    /\ k \in DOMAIN submit
    /\ submit[k].pc = "save1"
    /\ IF TokenExpired(MessageOf(e, FailedToSave))
       THEN /\ obToken' = FALSE
            /\ submit' = [submit EXCEPT ![k].pc = "refresh",
                                        ![k].cleared = @ + 1]
            /\ UNCHANGED <<saving, saveError>>
       ELSE /\ saveError' = MessageOf(e, FailedToSave)
            /\ saving' = FALSE
            /\ submit' = [submit EXCEPT ![k].pc = "done"]
            /\ UNCHANGED obToken
    /\ UNCHANGED <<route, loadingExisting, step, companyName, companyType,
                   rawMaterials, preferredCountries, cookie>>
    /\ UNCHANGED dashVars
    /\ UNCHANGED navVars
    /\ UNCHANGED fnVars

\* the retry branch after await ensureSession(), which left a token or none
RefreshDone(k, got) ==
    /\ k \in DOMAIN submit
    /\ submit[k].pc = "refresh"
    /\ obToken' = (obToken \/ got)
    /\ IF obToken'
       THEN /\ submit' = [submit EXCEPT ![k].pc = "save2", ![k].saves = @ + 1]
            /\ UNCHANGED <<saving, saveError>>
       ELSE /\ submit' = [submit EXCEPT ![k].pc = "done"]
            /\ saveError' = AuthenticationFailed
            /\ saving' = FALSE
    /\ UNCHANGED <<route, loadingExisting, step, companyName, companyType,
                   rawMaterials, preferredCountries, cookie>>
    /\ UNCHANGED dashVars
    /\ UNCHANGED navVars
    /\ UNCHANGED fnVars

\* doSave after its await (the retry)
Save2Resolve(k) ==
    /\ k \in DOMAIN submit
    /\ submit[k].pc = "save2"
    /\ cookie' = "1"
    /\ route' = "/dashboard"
    /\ saving' = FALSE
    /\ submit' = [submit EXCEPT ![k].pc = "done"]
    /\ UNCHANGED <<loadingExisting, step, companyName, companyType,
                   rawMaterials, preferredCountries, saveError, obToken>>
    /\ UNCHANGED dashVars
    /\ UNCHANGED navVars
    /\ UNCHANGED fnVars

\* the inner catch: the retry rejected with e
Save2Reject(k, e) ==
    /\ k \in DOMAIN submit
    /\ submit[k].pc = "save2"
    /\ saveError' = AuthenticationFailed
    /\ saving' = FALSE
    /\ submit' = [submit EXCEPT ![k].pc = "done"]
    /\ UNCHANGED <<route, loadingExisting, step, companyName, companyType,
                   rawMaterials, preferredCountries, obToken, cookie>>
    /\ UNCHANGED dashVars
    /\ UNCHANGED navVars
    /\ UNCHANGED fnVars

\* the wizard from its mount to the end of the first handleSubmit call
\* (calls that overlap are in SpecSubmit)
NextOnboard ==
    \/ \E got \in BOOLEAN, p \in Profiles : LoadExisting(got, p)
    \/ \E n \in CompanyNames : SetCompanyName(n)
    \/ \E t \in TypeOptions : SetCompanyType(t)
    \/ \E m \in Materials : ToggleMaterial(m)
    \/ \E c \in Countries : ToggleCountry(c)
    \/ Back
    \/ Continue
    \/ (submit = <<>> /\ handleSubmit)
    \/ \E got \in BOOLEAN : EnsureDone(1, got)
    \/ Save1Resolve(1)
    \/ \E e \in SaveFailures : Save1Reject(1, e)
    \/ \E got \in BOOLEAN : RefreshDone(1, got)
    \/ Save2Resolve(1)
    \/ \E e \in SaveFailures : Save2Reject(1, e)

SpecOnboard == InitOnboard /\ [][NextOnboard]_vars

(***************************************************************************)
(* handleSubmit alone: the form has been filled in and the wizard is on     *)
(* its last step, where the submit button is.                               *)
(***************************************************************************)
InitSubmit ==
    /\ phase = "mounting"
    /\ DashConstruct
    /\ stored = NoItem
    /\ route = "/onboard"
    /\ request = NoRequest
    /\ input = NoInput
    /\ output = NoOutput
    /\ selected = <<>>
    /\ cookie \in {"", "1"}
    /\ obToken \in BOOLEAN
    /\ loadingExisting = FALSE
    /\ step = 4
    /\ companyName = <<"A", "c", "m", "e">>
    /\ companyType = "Electronics"
    /\ rawMaterials = <<"Semiconductors">>
    /\ preferredCountries = <<"China">>
    /\ saving = FALSE
    /\ saveError = NoError
    /\ submit = <<>>

NextSubmit ==
    \/ Back
    \/ Continue
    \/ handleSubmit
    \/ \E k \in 1..MaxSubmits, got \in BOOLEAN : EnsureDone(k, got)
    \/ \E k \in 1..MaxSubmits : Save1Resolve(k)
    \/ \E k \in 1..MaxSubmits, e \in SaveFailures : Save1Reject(k, e)
    \/ \E k \in 1..MaxSubmits, got \in BOOLEAN : RefreshDone(k, got)
    \/ \E k \in 1..MaxSubmits : Save2Resolve(k)
    \/ \E k \in 1..MaxSubmits, e \in SaveFailures : Save2Reject(k, e)

SpecSubmit == InitSubmit /\ [][NextSubmit]_vars

(***************************************************************************)
(* Request routing: src/frontend/proxy.ts runs on every request the        *)
(* matcher selects, before the page is served                              *)
(***************************************************************************)
\* pathname.startsWith(prefix), on sequences of characters
startsWith(s, prefix) ==
    /\ Len(s) >= Len(prefix)
    /\ SubSeq(s, 1, Len(prefix)) = prefix

\* the pathnames a browser asks for: the address, its characters and the
\* section of the site it lies in
Paths ==
    { [name |-> "/", chars |-> <<"/">>, section |-> "home"],
      [name |-> "/onboard",
       chars |-> <<"/", "o", "n", "b", "o", "a", "r", "d">>,
       section |-> "onboard"],
      [name |-> "/dashboard",
       chars |-> <<"/", "d", "a", "s", "h", "b", "o", "a", "r", "d">>,
       section |-> "dashboard"],
      [name |-> "/dashboard/settings",
       chars |-> <<"/", "d", "a", "s", "h", "b", "o", "a", "r", "d", "/",
                   "s", "e", "t", "t", "i", "n", "g", "s">>,
       section |-> "dashboard"],
      [name |-> "/dashboards",
       chars |-> <<"/", "d", "a", "s", "h", "b", "o", "a", "r", "d", "s">>,
       section |-> "dashboard"],
      [name |-> "/dash", chars |-> <<"/", "d", "a", "s", "h">>,
       section |-> "other"],
      [name |-> "/profile",
       chars |-> <<"/", "p", "r", "o", "f", "i", "l", "e">>,
       section |-> "profile"],
      [name |-> "/login", chars |-> <<"/", "l", "o", "g", "i", "n">>,
       section |-> "login"],
      [name |-> "/login/reset",
       chars |-> <<"/", "l", "o", "g", "i", "n", "/", "r", "e", "s", "e",
                   "t">>,
       section |-> "login"],
      [name |-> "/signup", chars |-> <<"/", "s", "i", "g", "n", "u", "p">>,
       section |-> "signup"],
      [name |-> "/api/suppliers",
       chars |-> <<"/", "a", "p", "i", "/", "s", "u", "p", "p", "l", "i",
                   "e", "r", "s">>,
       section |-> "api"] }

\* the path of an address
PathOf(name) == CHOOSE p \in Paths : p.name = name

\* the values a browser can send for the sc_onboarded cookie ("" = no cookie)
CookieValues == {"", "1", "0", "11", "true"}

\* NextResponse.redirect(new URL(to, req.url)) and NextResponse.next()
Redirect(to) == [kind |-> "redirect", to |-> to]
PassOn == [kind |-> "next", to |-> ""]

\* a proxy that guards the dashboard's own address only
proxyExactPath(pathname, c) ==
    LET isOnboarded == c = "1"
    IN  IF \/ startsWith(pathname, PathOf("/login").chars)
           \/ startsWith(pathname, PathOf("/signup").chars)
        THEN Redirect(IF isOnboarded THEN "/dashboard" ELSE "/onboard")
        ELSE IF ~isOnboarded /\ pathname = PathOf("/dashboard").chars
             THEN Redirect("/onboard")
             ELSE PassOn

\* proxy(req), for a request of pathname that carries cookie value c
proxy(pathname, c) ==
    LET isOnboarded == c = "1"
    IN  IF \/ startsWith(pathname, PathOf("/login").chars)
           \/ startsWith(pathname, PathOf("/signup").chars)
        THEN Redirect(IF isOnboarded THEN "/dashboard" ELSE "/onboard")
        ELSE IF ~isOnboarded /\ startsWith(pathname, PathOf("/dashboard").chars)
             THEN Redirect("/onboard")
             ELSE PassOn

\* config.matcher: the proxy is skipped for the API and for static files
Matched(pathname) ==
    ~ \E skipped \in {<<"/", "a", "p", "i">>,
                      <<"/", "_", "n", "e", "x", "t", "/", "s", "t", "a", "t",
                        "i", "c">>,
                      <<"/", "_", "n", "e", "x", "t", "/", "i", "m", "a", "g",
                        "e">>,
                      <<"/", "f", "a", "v", "i", "c", "o", "n", ".", "i", "c",
                        "o">>} : startsWith(pathname, skipped)

\* what the server answers a request with
Serve(pathname, c) == IF Matched(pathname) THEN proxy(pathname, c) ELSE PassOn

\* redirects a browser follows before it gives up
MaxRedirects == 3

\* the address the browser ends at when it asks for name and follows the
\* redirects ("" when it gives up)
RECURSIVE Land(_, _, _)
Land(name, c, hops) ==
    LET res == Serve(PathOf(name).chars, c)
    IN  IF res.kind = "next" THEN name
        ELSE IF hops = 0 THEN ""
        ELSE Land(res.to, c, hops - 1)

\* the dashboard is mounted anew: its hooks are as after construction
DashMount ==
    /\ user' = FALSE
    /\ token' = FALSE
    /\ tab' = "overview"
    /\ suppliers' = <<>>
    /\ suppliersReq' = "none"
    /\ selectedSupplierId' = 0
    /\ analysisData' = NoData
    /\ isLoadingSuppliers' = TRUE
    /\ isAnalyzing' = FALSE
    /\ error' = ""
    /\ history' = JArr(<<>>)
    /\ historyOpen' = FALSE
    /\ overview' = FALSE
    /\ overviewLoading' = FALSE
    /\ overviewError' = ""
    /\ recs' = JNull
    /\ recsLoading' = FALSE
    /\ recsError' = ""
    /\ pending' = {}
    /\ calls' = 0
    /\ ovPending' = 0
    /\ ovCalls' = 0
    /\ recsPending' = 0
    /\ recsCalls' = 0
    /\ now' = SessionStart
    /\ crashed' = FALSE
    /\ recorded' = <<>>

\* the onboarding page is mounted anew: its hooks are as after construction
OnboardMount ==
    /\ loadingExisting' = TRUE
    /\ step' = 1
    /\ companyName' = <<>>
    /\ companyType' = ""
    /\ rawMaterials' = <<>>
    /\ preferredCountries' = <<>>
    /\ saving' = FALSE
    /\ saveError' = NoError
    /\ submit' = <<>>

\* the page at address r is mounted: the hooks of both pages are as after
\* construction, what is stored in the browser stays
Arrive(r) ==
    /\ route' = r
    /\ phase' = "mounting"
    /\ DashMount
    /\ OnboardMount
    /\ UNCHANGED stored

\* the user opens an address (types it, follows a link, reloads)
Navigate(p) ==
    /\ LET res == Serve(p.chars, cookie)
       IN  request' = [pathname |-> p.name, cookie |-> cookie,
                       response |-> res.kind,
                       location |-> Land(p.name, cookie, MaxRedirects)]
    /\ Arrive(Land(p.name, cookie, MaxRedirects))
    /\ UNCHANGED <<obToken, cookie>>
    /\ UNCHANGED fnVars

\* HomePage: ensureSession (got: it obtained a token), then router.replace
\* by the cookie
HomeRedirect(got) ==
    /\ route = "/"
    /\ obToken' = (obToken \/ got)
    /\ Arrive(IF cookie = "1" THEN "/dashboard" ELSE "/onboard")
    /\ UNCHANGED cookie
    /\ UNCHANGED navVars
    /\ UNCHANGED fnVars

\* 'Reset & re-onboard' in the dashboard's user menu
handleReonboard ==
    /\ route = "/dashboard"
    /\ Live
    /\ obToken' = FALSE
    /\ cookie' = ""
    /\ Arrive("/onboard")
    /\ UNCHANGED navVars
    /\ UNCHANGED fnVars

\* 'Sign out' on the profile page
handleLogout ==
    /\ route = "/profile"
    /\ obToken' = FALSE
    /\ cookie' = ""
    /\ Arrive("/onboard")
    /\ UNCHANGED navVars
    /\ UNCHANGED fnVars

\* a browser that opens the site, onboarded before or not; the wizard is
\* filled from the stored profile, which is fetched with a token, so every
\* submitted call starts with a token
InitNav ==
    /\ phase = "mounting"
    /\ DashConstruct
    /\ stored = NoItem
    /\ route = "/"
    /\ request = NoRequest
    /\ input = NoInput
    /\ output = NoOutput
    /\ selected = <<>>
    /\ cookie \in {"", "1"}
    /\ obToken \in BOOLEAN
    /\ OnboardConstruct

NextNav ==
    \/ \E p \in Paths : Navigate(p)
    \/ \E got \in BOOLEAN : HomeRedirect(got)
    \/ \E sess \in Sessions : route = "/dashboard" /\ InitSession(sess)
    \/ handleReonboard
    \/ handleLogout
    \/ \E got \in BOOLEAN, p \in Profiles : LoadExisting(got, p)
    \/ Back
    \/ Continue
    \/ (submit = <<>> /\ handleSubmit)
    \/ Save1Resolve(1)
    \/ \E e \in SaveFailures : Save1Reject(1, e)
    \/ \E got \in BOOLEAN : RefreshDone(1, got)
    \/ Save2Resolve(1)
    \/ \E e \in SaveFailures : Save2Reject(1, e)

SpecNav == InitNav /\ [][NextNav]_vars

(***************************************************************************)
(* Dashboard page: the supplier list ordered by the company profile        *)
(* (sortedSuppliers).  Names and materials are sequences of characters.    *)
(***************************************************************************)
\* MATERIAL_COUNTRY_MAP, its entries in the order of Object.entries
MATERIAL_COUNTRY_MAP ==
    <<[key |-> <<"B", "a", "t", "t", "e", "r", "i", "e", "s">>,
       countries |-> <<"China", "South Korea">>],
      [key |-> <<"S", "t", "e", "e", "l">>,
       countries |-> <<"India", "China", "Germany">>],
      [key |-> <<"A", "l", "u", "m", "i", "n", "u", "m">>,
       countries |-> <<"China", "India", "Germany">>],
      [key |-> <<"A", "l", "u", "m", "i", "n", "u", "m", " ", "A", "l", "l", "o",
              "y", "s">>,
       countries |-> <<"China", "Germany", "Japan">>],
      [key |-> <<"R", "u", "b", "b", "e", "r", " ", "&", " ", "S", "e", "a", "l",
              "s">>,
       countries |-> <<"Malaysia", "Thailand", "Vietnam">>]>>

\* the suppliers getSuppliers() can return
ListedSuppliers ==
    {[id |-> 1, supplier_name |-> <<"Z", "e", "d">>, country |-> "Germany"],
     [id |-> 2, supplier_name |-> <<"a", "c", "e">>, country |-> "Germany"],
     [id |-> 3, supplier_name |-> <<"A", "c", "e">>, country |-> "India"],
     [id |-> 4, supplier_name |-> <<"a", "c", "e">>, country |-> "India"],
     [id |-> 5, supplier_name |-> <<"B", "o", "l", "t">>, country |-> "Vietnam"]}

\* mat matches key when the texts are compared as written
materialMatchesAsWritten(mat, key) ==
    includes(mat, key) \/ includes(key, mat)

\* mat.toLowerCase().includes(key.toLowerCase()) ||
\* key.toLowerCase().includes(mat.toLowerCase())
materialMatches(mat, key) ==
    \/ includes(toLowerCase(mat), toLowerCase(key))
    \/ includes(toLowerCase(key), toLowerCase(mat))

\* the Set materialCountries that the loops over materials and entries fill
materialCountries(materials) ==
    UNION {{MATERIAL_COUNTRY_MAP[e].countries[i] :
               i \in 1..Len(MATERIAL_COUNTRY_MAP[e].countries)} :
           e \in {e \in 1..Len(MATERIAL_COUNTRY_MAP) :
                     \E m \in 1..Len(materials) :
                        materialMatches(materials[m],
                                        MATERIAL_COUNTRY_MAP[e].key)}}

\* the score the comparator gives a supplier
matchScore(s, preferred, countries) ==
    (IF Has(preferred, s.country) THEN 2 ELSE 0)
       + (IF s.country \in countries THEN 1 ELSE 0)

\* a comparator that looks at the scores only
compareByScoreOnly(a, b, preferred, countries) ==
    matchScore(b, preferred, countries) - matchScore(a, preferred, countries)

\* the comparator passed to sort: negative when a goes before b
compareSuppliers(a, b, preferred, countries) ==
    LET aScore == matchScore(a, preferred, countries)
        bScore == matchScore(b, preferred, countries)
    IN  IF bScore # aScore THEN bScore - aScore
        ELSE localeCompare(a.supplier_name, b.supplier_name)

\* Array.prototype.sort with that comparator: a stable sort, so an element
\* goes after the elements that compare before it and after the earlier
\* elements that compare equal to it
sorted(list, preferred, countries) ==
    LET before(j, i) ==
            LET c == compareSuppliers(list[j], list[i], preferred, countries)
            IN  c < 0 \/ (c = 0 /\ j < i)
        place(i) == 1 + Cardinality({j \in 1..Len(list) : before(j, i)})
    IN  [k \in 1..Len(list) |->
            list[CHOOSE i \in 1..Len(list) : place(i) = k]]

\* no profile is loaded
NoProfile == [tag |-> "null"]

\* suppliers.sort(...) without the copy: the list in the state is sorted too
sortedSuppliersInPlace(sups, profile) ==
    IF profile.tag = "null"
    THEN [value |-> sups, suppliers |-> sups, profile |-> profile]
    ELSE [value |-> sorted(sups, profile.preferred_countries,
                           materialCountries(profile.raw_materials)),
          suppliers |-> sorted(sups, profile.preferred_countries,
                               materialCountries(profile.raw_materials)),
          profile |-> profile]

\* the memo without its first line: no profile counts as an empty profile
sortedSuppliersUnguarded(sups, profile) ==
    [value |-> IF profile.tag = "null"
               THEN sorted(sups, <<>>, {})
               ELSE sorted(sups, profile.preferred_countries,
                           materialCountries(profile.raw_materials)),
     suppliers |-> sups, profile |-> profile]

\* the sortedSuppliers memo: the value it returns, and the suppliers state
\* and the profile state as it leaves them
sortedSuppliers(sups, profile) ==
    IF profile.tag = "null"
    THEN [value |-> sups, suppliers |-> sups, profile |-> profile]
    ELSE [value |-> sorted(sups, profile.preferred_countries,
                           materialCountries(profile.raw_materials)),
          suppliers |-> sups,
          profile |-> profile]

\* the longest supplier list sorted
MaxListed == 3

\* the supplier lists of at most n entries
RECURSIVE ListsUpTo(_)
ListsUpTo(n) ==
    IF n = 0 THEN {<<>>}
    ELSE ListsUpTo(n - 1)
            \cup {Append(l, s) : l \in {l \in ListsUpTo(n - 1) : Len(l) = n - 1},
                                 s \in ListedSuppliers}

\* materials a profile can name: the keys of the map, and texts that differ
\* from them in case, contain one, are part of some, or match none
ProfileMaterials ==
    {MATERIAL_COUNTRY_MAP[e].key : e \in 1..Len(MATERIAL_COUNTRY_MAP)}
       \cup {<<"S", "T", "E", "E", "L">>,
             <<"S", "t", "a", "i", "n", "l", "e", "s", "s", " ", "S", "t", "e", "e", "l">>,
             <<"a", "l", "u", "m">>,
             <<"A", "l", "u", "m", "i", "n", "u", "m">>,
             <<"X", "y", "z", "z", "y", "1", "2", "3">>,
             <<>>}

\* the profiles getProfile() can return
SortProfiles ==
    {[tag |-> "profile", preferred_countries |-> pc, raw_materials |-> rm] :
        pc \in {<<>>, <<"Germany">>, <<"Vietnam", "India">>},
        rm \in {<<>>} \cup {<<m>> : m \in ProfileMaterials}
                      \cup {<<<<"a", "l", "u", "m">>,
                              <<"S", "T", "E", "E", "L">>>>}}

\* the page holds a supplier list and a profile, or none
InitSort ==
    /\ phase = "sort"
    /\ DashConstruct
    /\ stored = NoItem
    /\ route = "/dashboard"
    /\ request = NoRequest
    /\ cookie = "1"
    /\ obToken = FALSE
    /\ OnboardConstruct
    /\ input \in [fn : {"sortedSuppliers"}, suppliers : ListsUpTo(MaxListed),
                  profile : SortProfiles \cup {NoProfile}]
    /\ output = NoOutput
    /\ selected = <<>>

\* a render evaluates the memo; the Set it filled on the way is kept
SortSuppliers ==
    /\ input.fn = "sortedSuppliers"
    /\ output = NoOutput
    /\ output' = [fn |-> "sortedSuppliers",
                   materialCountries |->
                      IF input.profile.tag = "null" THEN {}
                      ELSE materialCountries(input.profile.raw_materials)]
                    @@ sortedSuppliers(input.suppliers, input.profile)
    /\ UNCHANGED <<input, selected, dashVars, onboardVars, navVars>>

NextSort == SortSuppliers

SpecSort == InitSort /\ [][NextSort]_vars

(***************************************************************************)
(* Dashboard page: the classification of a score in [0, 1]                 *)
(***************************************************************************)
\* a score in hundredths is about to be classified
InitRisk ==
    /\ phase = "risk"
    /\ DashConstruct
    /\ stored = NoItem
    /\ route = "/dashboard"
    /\ request = NoRequest
    /\ cookie = "1"
    /\ obToken = FALSE
    /\ OnboardConstruct
    /\ input \in [fn : {"classify"}, score : 0..100]
    /\ output = NoOutput
    /\ selected = <<>>

\* the badges of an analysis (ensemble score) and of an overview row
\* (composite score) are rendered for the score
Classify ==
    /\ input.fn = "classify"
    /\ output = NoOutput
    /\ output' = [fn |-> "classify",
                   riskLabel |-> riskLabel(input.score),
                   riskColor |-> riskColor(input.score),
                   riskStr |-> scoreToRiskStr(input.score),
                   scoreColor |-> scoreColor(input.score)]
    /\ UNCHANGED <<input, selected, dashVars, onboardVars, navVars>>

NextRisk == Classify

SpecRisk == InitRisk /\ [][NextRisk]_vars

(***************************************************************************)
(* Dashboard page: the Compare Countries tab (CompareContent)              *)
(***************************************************************************)
\* a JS number; JNull stands for null and undefined
Num(k) == [tag |-> "number", n |-> k]

\* country_factors of a supplier card
Factors(cost, days, customs, stability, tax) ==
    [shipping_cost_usd_per_kg |-> cost, avg_shipping_days |-> days,
     customs_clearance_days |-> customs, political_stability |-> stability,
     corporate_tax_pct |-> tax]

\* a supplier card of the overview
Card(reliability, delay, risk, factors) ==
    [reliability_score |-> reliability, delay_pct |-> delay,
     country_risk_score |-> risk, country_factors |-> factors]

\* overview.grouped_by_country as getSuppliersOverview() can return it: one
\* with values that tie, values that are missing and a country without
\* cards, and one where no card carries country data
Overviews ==
    {[China |-> <<Card(80, 10, Num(6),
                       Factors(Num(2), Num(20), Num(3), Num(5), Num(25)))>>,
      Germany |-> <<Card(95, 5, Num(2),
                         Factors(Num(5), Num(10), Num(1), Num(9), Num(30)))>>,
      India |-> <<Card(80, 5, Num(2),
                       Factors(Num(2), JNull, Num(3), Num(9), JNull))>>,
      Japan |-> <<Card(90, 4, JNull, JNull), Card(100, 6, Num(1), JNull)>>,
      Vietnam |-> <<>>],
     [China |-> <<Card(70, 8, JNull, JNull)>>,
      Germany |-> <<Card(90, 2, JNull, JNull)>>,
      India |-> <<Card(70, 2, JNull, JNull)>>,
      Japan |-> <<Card(90, 8, JNull, JNull)>>,
      Vietnam |-> <<Card(60, 9, JNull, JNull)>>]}

\* sups.reduce((s, x) => s + f(x), 0)
RECURSIVE SumOf(_, _)
SumOf(sups, field) ==
    IF sups = <<>> THEN 0 ELSE Head(sups)[field] + SumOf(Tail(sups), field)

\* getData(country); the averages of the cards modelled are whole numbers
getData(groups, country) ==
    LET sups == IF country \in DOMAIN groups THEN groups[country] ELSE <<>>
    IN  [country |-> country,
         sups |-> sups,
         cf |-> IF sups = <<>> THEN JNull ELSE sups[1].country_factors,
         riskScore |-> IF sups = <<>> THEN JNull
                       ELSE sups[1].country_risk_score,
         avgReliability |->
            IF Len(sups) > 0
            THEN SumOf(sups, "reliability_score") \div Len(sups) ELSE 0,
         avgDelay |->
            IF Len(sups) > 0
            THEN SumOf(sups, "delay_pct") \div Len(sups) ELSE 0]

\* the rows of the table that mark a best value, with the direction passed
\* to best and cellCls
CompareMetrics ==
    <<[name |-> "avgReliability", prefer |-> "max"],
      [name |-> "avgDelay", prefer |-> "min"],
      [name |-> "riskScore", prefer |-> "min"],
      [name |-> "shipping_cost_usd_per_kg", prefer |-> "min"],
      [name |-> "avg_shipping_days", prefer |-> "min"],
      [name |-> "customs_clearance_days", prefer |-> "min"],
      [name |-> "political_stability", prefer |-> "max"],
      [name |-> "corporate_tax_pct", prefer |-> "min"]>>

\* the value of a row in the column d: d.avgReliability, d.avgDelay,
\* d.riskScore or d.cf?.[name] ?? null
MetricValue(d, name) ==
    IF name \in {"avgReliability", "avgDelay"} THEN Num(d[name])
    ELSE IF name = "riskScore" THEN d.riskScore
    ELSE IF d.cf = JNull THEN JNull
    ELSE d.cf[name]

\* a best that takes the smallest value whatever the direction
bestAlwaysMin(vals, prefer) ==
    LET nums == {vals[k].n : k \in {k \in 1..Len(vals) : vals[k] # JNull}}
    IN  IF nums = {} THEN JNull
        ELSE Num(CHOOSE x \in nums : \A y \in nums : x <= y)

\* best(vals, prefer)
best(vals, prefer) ==
    LET nums == {vals[k].n : k \in {k \in 1..Len(vals) : vals[k] # JNull}}
    IN  IF nums = {} THEN JNull
        ELSE IF prefer = "min"
             THEN Num(CHOOSE x \in nums : \A y \in nums : x <= y)
             ELSE Num(CHOOSE x \in nums : \A y \in nums : x >= y)

\* cellCls(val, bestVal, prefer)
cellCls(val, bestVal, prefer) ==
    IF val = JNull \/ bestVal = JNull THEN "text-zinc-400"
    ELSE IF val = bestVal THEN "text-emerald-400 font-bold"
    ELSE "text-zinc-200"

\* rsCls of the Geopolitical Risk row
rsCls(rs, b) ==
    IF rs = JNull THEN "text-zinc-600"
    ELSE IF rs = b THEN "text-emerald-400 font-bold"
    ELSE IF rs.n >= 7 THEN "text-red-400"
    ELSE IF rs.n >= 4 THEN "text-amber-400"
    ELSE "text-emerald-400"

\* what is rendered below the picker: the prompt to select countries, or the
\* table with the class of every cell of the rows above
CompareTable(sel, groups) ==
    IF Len(sel) < 2 THEN [kind |-> "prompt", cells |-> <<>>]
    ELSE LET cols == [k \in 1..Len(sel) |-> getData(groups, sel[k])]
             row(m) ==
                LET vals == [k \in 1..Len(cols) |->
                                MetricValue(cols[k], m.name)]
                    b == best(vals, m.prefer)
                IN  [k \in 1..Len(cols) |->
                        IF m.name = "riskScore" THEN rsCls(vals[k], b)
                        ELSE cellCls(vals[k], b, m.prefer)]
         IN  [kind |-> "table",
              cells |-> [i \in 1..Len(CompareMetrics) |->
                            row(CompareMetrics[i])]]

\* a toggleCountry without the limit
toggleCountryUnlimited(prev, c) ==
    IF Has(prev, c) THEN SelectSeq(prev, LAMBDA x : x # c)
    ELSE Append(prev, c)

\* the updater of toggleCountry(c)
toggleCountry(prev, c) ==
    IF Has(prev, c) THEN SelectSeq(prev, LAMBDA x : x # c)
    ELSE IF Len(prev) >= 4 THEN prev
    ELSE Append(prev, c)

\* the Compare tab is opened on an overview, nothing selected
InitCompare ==
    /\ phase = "compare"
    /\ DashConstruct
    /\ stored = NoItem
    /\ route = "/dashboard"
    /\ request = NoRequest
    /\ cookie = "1"
    /\ obToken = FALSE
    /\ OnboardConstruct
    /\ input \in [fn : {"CompareContent"}, overview : Overviews]
    /\ output = NoOutput
    /\ selected = <<>>

\* a click on the button of country c, which is disabled when c is not
\* selected and four countries are
CompareToggle(c) ==
    /\ input.fn = "CompareContent"
    /\ c \in DOMAIN input.overview
    /\ ~(~Has(selected, c) /\ Len(selected) >= 4)
    /\ selected' = toggleCountry(selected, c)
    /\ UNCHANGED <<input, output, dashVars, onboardVars, navVars>>

\* 'Clear all', rendered when something is selected
CompareClearAll ==
    /\ input.fn = "CompareContent"
    /\ Len(selected) > 0
    /\ selected' = <<>>
    /\ UNCHANGED <<input, output, dashVars, onboardVars, navVars>>

NextCompare ==
    \/ \E c \in {"China", "Germany", "India", "Japan", "Vietnam"} :
          CompareToggle(c)
    \/ CompareClearAll

SpecCompare == InitCompare /\ [][NextCompare]_vars

(***************************************************************************)
(* Properties of the analysis result and the history (SpecAnalysis)         *)
(***************************************************************************)
\* the supplier ids of a list of entries, in order
IdsOf(h) == [k \in 1..Len(h) |-> h[k].supplierId]
\* the elements of a sequence
Range(q) == {q[k] : k \in 1..Len(q)}

\* C1: a response to analyzeSupplier(id) that arrives after the selection
\* changed is ignored: in every reachable state a result that is shown
\* (analysisData not null) is a result for the supplier selectedSupplierId
C1_ShownResultIsOfSelection ==
    analysisData # NoData => analysisData.forSupplier = selectedSupplierId

\* C1, the case: no call is pending and the result shown is not the selected
\* supplier's
C1_StaleResultShown ==
    /\ pending = {}
    /\ analysisData # NoData
    /\ analysisData.forSupplier # selectedSupplierId

\* C2: after the load from storage, after every record and after Clear all,
\* the history in memory and the history persisted under sc_history each hold
\* at most HISTORY_MAX (5) entries
C2_AtMostFive ==
    /\ Len(Entries(history)) <= HISTORY_MAX
    /\ Len(Persisted(stored)) <= HISTORY_MAX

\* C2, the case: a full history was loaded and an analysis of a supplier that
\* was not in it has been recorded, in memory and in storage
C2_RecordOnFull ==
    /\ Len(Entries(history)) = HISTORY_MAX
    /\ Len(Persisted(stored)) = HISTORY_MAX
    /\ IdsOf(Entries(history)) = <<2>> \o SubSeq(OldIds, 1, HISTORY_MAX - 1)
    /\ loadHistory(stored) = history

\* C4: no two entries of the history have the same supplierId, whatever the
\* order in which the analyses in flight complete; an entry recorded for a
\* supplier that was present replaces that supplier's entry
C4_OneEntryPerSupplier ==
    \A i, j \in 1..Len(Entries(history)) :
        Entries(history)[i].supplierId = Entries(history)[j].supplierId
            => i = j

\* C4, the case: supplier 1, last in the loaded history, was analysed again
\* and its one entry is the new one, at the front
C4_ReanalysedAtFront ==
    /\ IdsOf(Entries(history)) = <<1>> \o SubSeq(OldIds, 1, HISTORY_MAX - 1)
    /\ Entries(history)[1].id # FullHistory[HISTORY_MAX].id
    /\ Entries(history)[1].data.ensemble.final_score \in Scores

(***************************************************************************)
(* Properties of the history store (SpecStore): recorded is the sequence of *)
(* suppliers whose analyses were recorded, oldest first                     *)
(***************************************************************************)
\* the position of the latest record for supplier s
LastRecord(s) ==
    CHOOSE i \in 1..Len(recorded) :
        recorded[i] = s /\ \A j \in (i + 1)..Len(recorded) : recorded[j] # s
\* the entry the i-th record built
EntryOfRecord(i) ==
    NewEntry(recorded[i], Supplier(recorded[i]),
             Response(recorded[i], ScoreFor(recorded[i])), SessionStart + i)

\* C3: a record for supplier s puts the new entry first, keeps after it the
\* other suppliers' entries in the order they had, and truncates to 5.  So
\* after any sequence of records the history holds, newest first, the latest
\* entry of each of the (at most 5) most recently recorded suppliers, and
\* after 6 records for 6 distinct suppliers it holds records 6, 5, 4, 3, 2
C3_NewestFirstDistinct ==
    LET h == Entries(history)
        latest == {LastRecord(s) : s \in Range(recorded)}
    IN  /\ Len(h) = Min(HISTORY_MAX, Cardinality(latest))
        /\ \A k \in 1..Len(h) :
              \E i \in latest :
                 /\ h[k] = EntryOfRecord(i)
                 /\ Cardinality({j \in latest : j > i}) = k - 1
        /\ (Len(recorded) = HISTORY_MAX + 1
               /\ Cardinality(Range(recorded)) = HISTORY_MAX + 1)
           => IdsOf(h) = [k \in 1..HISTORY_MAX |->
                             recorded[HISTORY_MAX + 2 - k]]

\* C3, the case: six distinct suppliers were recorded in sequence and the
\* history holds five entries, without the first supplier recorded
C3_SixDistinctRecorded ==
    /\ Len(recorded) = HISTORY_MAX + 1
    /\ Cardinality(Range(recorded)) = HISTORY_MAX + 1
    /\ Len(Entries(history)) = HISTORY_MAX
    /\ recorded[1] \notin Range(IdsOf(Entries(history)))

\* C6: for every list L of at most 5 entries, loadHistory() after
\* saveHistory(L) returns a list equal to L, order and fields preserved; L is
\* the history in memory, and what was saved after a record loads as it
C6_RoundTrip ==
    /\ Len(Entries(history)) <= HISTORY_MAX
    /\ loadHistory(saveHistory(Entries(history))) = JArr(Entries(history))
    /\ loadHistory(stored) = history

\* C6, the case: a list of 5 entries with different scores and risk levels
\* was saved
C6_FullListSaved ==
    /\ Len(Entries(history)) = HISTORY_MAX
    /\ stored = saveHistory(Entries(history))
    /\ Cardinality({Entries(history)[k].riskLevel :
                       k \in 1..HISTORY_MAX}) = 3

(***************************************************************************)
(* Properties of the mount and of the fetches (SpecFetch)                   *)
(***************************************************************************)
\* C5: when the value persisted under sc_history is absent or corrupt
\* (unparseable, or JSON that is not a list of entries), the dashboard starts
\* with an empty history and nothing is thrown
C5_CorruptLoadsEmpty ==
    (phase = "ready" /\ stored.kind # "array")
        => (history = JArr(<<>>) /\ ~crashed)

\* C5, the case: the persisted text is JSON but not a list, the history
\* state is not a list and the render of a signed-in dashboard has thrown
C5_RenderThrew ==
    /\ phase = "ready"
    /\ user
    /\ stored = NullText
    /\ history = JNull
    /\ crashed

\* C9: in one session getSuppliersOverview and getRecommendations are each
\* invoked at most once, and at most one call of each is outstanding,
\* whatever the tab switches
C9_FetchedOnce ==
    /\ ovCalls <= 1
    /\ recsCalls <= 1
    /\ ovPending <= 1
    /\ recsPending <= 1

\* C9, the case: two getSuppliersOverview calls are outstanding at once
C9_TwoOverviewCallsPending ==
    /\ ovPending = 2
    /\ ~overview
    /\ overviewError = ""

(***************************************************************************)
(* Properties of recording and deleting (SpecAnalysis)                      *)
(***************************************************************************)
\* C7: every analyzeSupplier call that completes successfully creates a
\* history entry for the analysed supplier, in memory and persisted,
\* wherever handleSupplierSelect was invoked from
C7_SuccessIsRecorded ==
    [][\A c \in pending, score \in Scores :
          AnalyzeResolve(c, score)
              => /\ Len(Entries(history')) > 0
                 /\ Entries(history')[1].supplierId = c.id
                 /\ Entries(history')[1].data = Response(c.id, score)
                 /\ loadHistory(stored') = history']_vars

\* C7, the case: an analysis completed, its result is shown, and neither the
\* history in memory nor the persisted one has an entry
C7_ShownButNotRecorded ==
    /\ analysisData # NoData
    /\ analysisData.forSupplier = selectedSupplierId
    /\ pending = {}
    /\ history = JArr(<<>>)
    /\ stored = NoItem

\* a list without its i-th element
Without(h, i) == SubSeq(h, 1, i - 1) \o SubSeq(h, i + 1, Len(h))

\* C8: the user can delete history entries individually or all at once:
\* with the sidebar open, Clear all is available and leaves the history in
\* memory and the persisted history empty, and each single entry can be
\* deleted, leaving every other entry and their order unchanged
C8_DeletableSinglyOrAll ==
    (Live /\ historyOpen /\ Len(Entries(history)) >= 2)
        => /\ ENABLED (Next /\ history' = JArr(<<>>)
                            /\ Persisted(stored') = <<>>)
           /\ \A i \in 1..Len(Entries(history)) :
                 ENABLED (Next /\ history' = JArr(Without(Entries(history), i))
                               /\ loadHistory(stored') = history')

\* C8 as amended: entries are deleted only all at once.  Clear all leaves the
\* history in memory and the persisted history empty; an entry leaves the
\* history in no other step, except that a record replaces the entry of the
\* supplier it records and evicts the last of HISTORY_MAX entries
C8_ClearAllOnly ==
    [][/\ ClearAll => /\ history' = JArr(<<>>)
                      /\ stored'.kind = "array"
                      /\ Persisted(stored') = <<>>
                      /\ loadHistory(stored') = JArr(<<>>)
       /\ \A e \in Range(Entries(history)) :
             e \notin Range(Entries(history'))
                 => \/ /\ history' = JArr(<<>>)
                       /\ Persisted(stored') = <<>>
                    \/ /\ Len(Entries(history')) > 0
                       /\ Entries(history')[1] \notin Range(Entries(history))
                       /\ \/ e.supplierId = Entries(history')[1].supplierId
                          \/ /\ Len(Entries(history)) = HISTORY_MAX
                             /\ e = Entries(history)[HISTORY_MAX]]_vars

\* C8, the case: Clear all has run, the history in memory is empty and the
\* persisted item is the empty list
C8_Cleared ==
    /\ Live
    /\ history = JArr(<<>>)
    /\ stored = saveHistory(<<>>)

(***************************************************************************)
(* Properties of the profile save (SpecSubmit)                              *)
(***************************************************************************)
\* C10: a handleSubmit call issues at most two saveOnboardProfile calls.  A
\* first save that fails because the token was refused invalidates the
\* session once and asks for a new one, and the save is retried once, when a
\* token was obtained; a failed retry, and a token that could not be
\* obtained, end the call with saveError set; a first save that fails for
\* another reason ends the call with that failure's message and no retry
C10_RetryOnce ==
    /\ [](\A k \in DOMAIN submit :
             /\ submit[k].saves <= 2
             /\ submit[k].cleared <= 1
             /\ submit[k].saves = 2 => submit[k].cleared = 1
             /\ submit[k].pc = "save2" => submit[k].saves = 2
             /\ submit[k].pc = "refresh" => submit[k].saves = 1)
    /\ [][\A k \in DOMAIN submit :
             /\ submit[k].pc = "done" => submit'[k] = submit[k]
             /\ \A e \in SaveFailures :
                   Save1Reject(k, e)
                       => IF e.unauthorized
                          THEN /\ submit'[k].pc = "refresh"
                               /\ submit'[k].cleared = 1
                               /\ submit'[k].saves = 1
                               /\ ~obToken'
                          ELSE /\ submit'[k].pc = "done"
                               /\ submit'[k].saves = 1
                               /\ saveError' = MessageOf(e, FailedToSave)
                               /\ ~saving'
             /\ \A got \in BOOLEAN :
                   RefreshDone(k, got)
                       => IF obToken'
                          THEN /\ submit'[k].pc = "save2"
                               /\ submit'[k].saves = 2
                               /\ submit'[k].cleared = 1
                          ELSE /\ submit'[k].pc = "done"
                               /\ submit'[k].saves = 1
                               /\ saveError' = AuthenticationFailed
                               /\ ~saving'
             /\ \A e \in SaveFailures :
                   Save2Reject(k, e)
                       => /\ submit'[k].pc = "done"
                          /\ submit'[k].saves = 2
                          /\ saveError' = AuthenticationFailed
                          /\ ~saving'
             /\ Save2Resolve(k)
                   => /\ submit'[k].pc = "done"
                      /\ submit'[k].saves = 2]_vars

\* C10, the case: a call whose first save was refused and whose retry
\* failed has ended, after two saves, with the terminal error
C10_RetriedAndFailed ==
    \E k \in DOMAIN submit :
        /\ submit[k].pc = "done"
        /\ submit[k].saves = 2
        /\ submit[k].cleared = 1
        /\ saveError = AuthenticationFailed
        /\ ~saving
        /\ route = "/onboard"

\* C11: the cookie sc_onboarded=1 is set and the navigation to /dashboard is
\* issued only by a step in which a saveOnboardProfile call has succeeded; on
\* every path of handleSubmit on which no save succeeds (no token, a failure
\* that is not an authorization failure, a failed retry, no token after the
\* refresh) the cookie and the route are left as they were
C11_MarkedOnlyAfterSave ==
    [][/\ (cookie' # cookie \/ route' # route)
            => /\ \E k \in DOMAIN submit :
                     /\ submit[k].pc \in {"save1", "save2"}
                     /\ submit'[k].pc = "done"
                     /\ Save1Resolve(k) \/ Save2Resolve(k)
               /\ cookie' = "1"
               /\ route' = "/dashboard"
       /\ \A k \in DOMAIN submit :
             /\ (Save1Resolve(k) \/ Save2Resolve(k))
                   => cookie' = "1" /\ route' = "/dashboard"
             /\ (\/ \E got \in BOOLEAN : EnsureDone(k, got)
                 \/ \E e \in SaveFailures : Save1Reject(k, e)
                 \/ \E got \in BOOLEAN : RefreshDone(k, got)
                 \/ \E e \in SaveFailures : Save2Reject(k, e))
                   => cookie' = cookie /\ route' = route]_vars

\* C11, the case: a browser that was not onboarded made a call whose first
\* save failed for another reason than authorization, and the call has ended
\* with the cookie still not set and the wizard still shown
C11_FailedAndUnmarked ==
    /\ cookie = ""
    /\ route = "/onboard"
    /\ \E k \in DOMAIN submit :
          /\ submit[k].pc = "done"
          /\ submit[k].saves = 1
          /\ submit[k].cleared = 0
    /\ saveError = <<"H", "T", "T", "P", " ", "5", "0", "0">>

\* C12: the dashboard is served to onboarded browsers only. Whatever value
\* other than "1" the sc_onboarded cookie has (not set at first, deleted by
\* 'Reset & re-onboard' or 'Sign out'), a request for a path that starts with
\* /dashboard is answered with a redirect to /onboard; a request for a path
\* that starts with /login or /signup is answered with a redirect to
\* /dashboard when the cookie is "1" and to /onboard otherwise; the requests
\* the browser has sent were answered so, and no step shows a dashboard page
\* to a browser whose cookie is not "1".
C12_DashboardNeedsOnboarding ==
    /\ [](
           /\ \A p \in Paths, c \in CookieValues \cup {cookie} :
                /\ (c # "1" /\ p.section = "dashboard")
                      => Serve(p.chars, c) = Redirect("/onboard")
                /\ p.section \in {"login", "signup"}
                      => Serve(p.chars, c) =
                            Redirect(IF c = "1" THEN "/dashboard"
                                                ELSE "/onboard")
           /\ \A p \in Paths :
                p.name = request.pathname
                   => /\ (request.cookie # "1" /\ p.section = "dashboard")
                            => /\ request.response = "redirect"
                               /\ request.location = "/onboard"
                      /\ p.section \in {"login", "signup"}
                            => /\ request.response = "redirect"
                               /\ request.location =
                                     IF request.cookie = "1" THEN "/dashboard"
                                                             ELSE "/onboard"
           /\ \A p \in Paths :
                (p.name = route /\ p.section = "dashboard") => cookie = "1")
    /\ [][\A p \in Paths :
            (p.name = route' /\ p.section = "dashboard" /\ route' # route)
               => cookie' = "1"]_vars

\* C12, the case: a browser without the cookie asked for a page below the
\* dashboard, was redirected, and the wizard is shown to it
C12_RedirectedToOnboard ==
    /\ request = [pathname |-> "/dashboard/settings", cookie |-> "",
                  response |-> "redirect", location |-> "/onboard"]
    /\ cookie = ""
    /\ Shown

\* how often supplier id occurs in a list
Occurrences(list, id) == Cardinality({k \in 1..Len(list) : list[k].id = id})

\* C13: for every supplier list and every profile, sortedSuppliers returns a
\* permutation of the list it was given (every supplier id occurs as often in
\* the result as in the input), and the supplier list and the profile in the
\* state are after the call what they were before it.
C13_PermutationInputsKept ==
    output.fn = "sortedSuppliers"
       => /\ Len(output.value) = Len(input.suppliers)
          /\ \A s \in ListedSuppliers :
                Occurrences(output.value, s.id)
                   = Occurrences(input.suppliers, s.id)
          /\ Range(output.value) = Range(input.suppliers)
          /\ output.suppliers = input.suppliers
          /\ output.profile = input.profile

\* C13, the case: a list that names a supplier twice was sorted into another
\* order
C13_Reordered ==
    /\ output.fn = "sortedSuppliers"
    /\ output.value # input.suppliers
    /\ \E i, j \in 1..Len(input.suppliers) :
          i # j /\ input.suppliers[i].id = input.suppliers[j].id

\* C14: when no profile is loaded, sortedSuppliers returns the suppliers in
\* exactly the order of the input.
C14_NoProfileKeepsOrder ==
    (output.fn = "sortedSuppliers" /\ input.profile = NoProfile)
       => output.value = input.suppliers

\* C14, the case: without a profile, a list was returned as given although
\* its names are not in alphabetical order
C14_UnsortedReturned ==
    /\ output.fn = "sortedSuppliers"
    /\ input.profile = NoProfile
    /\ Len(input.suppliers) = 3
    /\ input.suppliers[1].supplier_name = <<"Z", "e", "d">>
    /\ input.suppliers[2].supplier_name = <<"a", "c", "e">>
    /\ output.value = input.suppliers

\* the UTF-16 code units of a text of letters and spaces
CodeUnits(t) ==
    [i \in 1..Len(t) |->
        IF CaseOf(t[i]) = 1 THEN 64 + LetterOf(t[i])
        ELSE IF LetterOf(t[i]) > 0 THEN 96 + LetterOf(t[i])
        ELSE 32]

\* the countries of the profile's materials, by the map as it is written
CountriesByTable(materials) ==
    LET steel == {"India", "China", "Germany"}
        aluminum == {"China", "India", "Germany", "Japan"}
        table ==
            [m \in ProfileMaterials |->
                IF m = <<>>
                   THEN {"China", "South Korea", "India", "Germany", "Japan",
                         "Malaysia", "Thailand", "Vietnam"}
                ELSE IF toLowerCase(m) = <<"b", "a", "t", "t", "e", "r", "i",
                                           "e", "s">>
                   THEN {"China", "South Korea"}
                ELSE IF m[Len(m)] \in {"l", "L"} THEN steel
                ELSE IF m[1] \in {"a", "A"} THEN aluminum
                ELSE IF m[1] = "R" THEN {"Malaysia", "Thailand", "Vietnam"}
                ELSE {}]
    IN  UNION {table[materials[i]] : i \in 1..Len(materials)}

\* the score of a supplier under a profile: 2 for a preferred country plus 1
\* for a country of the profile's materials
ScoreUnder(s, profile) ==
    (IF s.country \in Range(profile.preferred_countries) THEN 2 ELSE 0)
       + (IF s.country \in CountriesByTable(profile.raw_materials)
          THEN 1 ELSE 0)

C16_CountriesOfMatchingKeys ==
    (output.fn = "sortedSuppliers" /\ input.profile # NoProfile)
       => /\ output.materialCountries
                = CountriesByTable(input.profile.raw_materials)
          /\ \A e \in 1..Len(MATERIAL_COUNTRY_MAP) :
                input.profile.raw_materials = <<MATERIAL_COUNTRY_MAP[e].key>>
                   => output.materialCountries # {}
          /\ input.profile.raw_materials
                = <<<<"X", "y", "z", "z", "y", "1", "2", "3">>>>
                => output.materialCountries = {}

\* C16, the case: the materials 'alum' and 'STEEL' gave the countries of the
\* keys Aluminum, Aluminum Alloys and Steel
C16_PartAndOtherCase ==
    /\ output.fn = "sortedSuppliers"
    /\ input.profile # NoProfile
    /\ input.profile.raw_materials
          = <<<<"a", "l", "u", "m">>, <<"S", "T", "E", "E", "L">>>>
    /\ output.materialCountries = {"China", "India", "Germany", "Japan"}

\* the band a colour class stands for
BandOfColor(cls) ==
    IF cls \in {"text-red-400 bg-red-500/10 border-red-500/20",
                "text-red-400"} THEN "high"
    ELSE IF cls \in {"text-amber-400 bg-amber-500/10 border-amber-500/20",
                     "text-amber-400"} THEN "medium"
    ELSE IF cls \in {"text-emerald-400 bg-emerald-500/10 border-emerald-500/20",
                     "text-emerald-400"} THEN "low"
    ELSE "none"

\* the band of a score in hundredths when the bands start at medium and high
BandFrom(score, medium, high) ==
    CHOOSE b \in {"low", "medium", "high"} :
       /\ b = "high" <=> score >= high
       /\ b = "medium" <=> (medium <= score /\ score < high)
       /\ b = "low" <=> score < medium

\* C17: each threshold profile maps every score in [0, 1] to exactly one of
\* three contiguous bands, a boundary belonging to the band above it:
\* riskLabel and riskColor give low below 0.4, medium from 0.4 and high from
\* 0.7; scoreToRiskStr and the score colour give low below 0.35, medium from
\* 0.35 and high from 0.6; the profiles are distinct, so a score from 0.6
\* to below 0.7 is medium in the first and high in the second.
C17_ThreeBandsBoundaryUp ==
    output.fn = "classify"
       => /\ output.riskLabel
                = [low |-> "Low", medium |-> "Medium", high |-> "High"]
                     [BandFrom(input.score, 40, 70)]
          /\ BandOfColor(output.riskColor) = BandFrom(input.score, 40, 70)
          /\ output.riskStr = BandFrom(input.score, 35, 60)
          /\ BandOfColor(output.scoreColor) = BandFrom(input.score, 35, 60)
          /\ input.score \in {70, 100} => output.riskLabel = "High"
          /\ input.score = 40 => output.riskLabel = "Medium"
          /\ input.score \in {0, 39} => output.riskLabel = "Low"
          /\ input.score = 60
                => output.riskStr = "high" /\ output.riskLabel = "Medium"
          /\ input.score = 35
                => output.riskStr = "medium" /\ output.riskLabel = "Low"

\* C17, the case: 0.4 was classified, medium in both profiles, and so was
\* shown amber twice
C17_BoundaryClassified ==
    /\ output.fn = "classify"
    /\ input.score = 40
    /\ output.riskLabel = "Medium"
    /\ output.riskStr = "medium"
    /\ BandOfColor(output.riskColor) = "medium"

\* C18: in every reachable state every entry of the history, recorded in
\* this session or read back from storage, has the risk level that
\* riskLabel gives its ensemble score, and the colour riskColor gives the
\* badge of the entry is the colour of the band of that level.
C18_LevelFromScore ==
    history.tag = "array"
       => \A k \in 1..Len(history.items) :
             LET entry == history.items[k]
             IN  /\ entry.riskLevel = riskLabel(entry.ensembleScore)
                 /\ entry.riskLevel
                       = [low |-> "Low", medium |-> "Medium", high |-> "High"]
                            [BandOfColor(riskColor(entry.ensembleScore))]
                 /\ entry.riskLevel
                       = [low |-> "Low", medium |-> "Medium", high |-> "High"]
                            [BandFrom(entry.ensembleScore, 40, 70)]

\* C18, the case: the history was read back from storage and holds entries
\* of all three levels, one of them with a score from 0.6 to below 0.7
C18_LoadedAllLevels ==
    /\ history.tag = "array"
    /\ history = loadHistory(stored)
    /\ {history.items[k].riskLevel : k \in 1..Len(history.items)}
          = {"Low", "Medium", "High"}
    /\ \E k \in 1..Len(history.items) :
          /\ history.items[k].ensembleScore = 69
          /\ history.items[k].riskLevel = "Medium"

EmptyResponse(rc) ==
    /\ rc # JNull
    /\ \/ rc.recommendations = Missing
       \/ rc.recommendations = JArr(<<>>)

\* C20: the recommendations are in one of three states that are shown
\* differently: not computed (recs is null, no content), computed and empty
\* (the response has no list or an empty one, the no-recommendations text
\* is shown) and computed with entries (a card for each entry); a response
\* without entries is never shown as a list, never counts as not computed,
\* and neither its arrival nor any later step with it issues another fetch.
C20_EmptyIsAStateOfItsOwn ==
    /\ [](/\ recs = JNull => RecsPanel(recs).kind = "none"
          /\ EmptyResponse(recs)
                => /\ RecsPanel(recs).kind = "empty"
                   /\ RecsPanel(recs).rows = <<>>
                   /\ ~RecsEffectRuns(tab, user, token, recs)
          /\ (recs # JNull /\ ~EmptyResponse(recs))
                => /\ RecsPanel(recs).kind = "list"
                   /\ Len(RecsPanel(recs).rows)
                         = Len(recs.recommendations.items)
                   /\ Len(RecsPanel(recs).rows) > 0)
    /\ [][EmptyResponse(recs') => recsCalls' = recsCalls]_vars

\* C20, the case: the one fetch of the session returned an empty list, the
\* tab is open and nothing is pending or loading
C20_EmptyReceived ==
    /\ tab = "recommendations"
    /\ recs # JNull
    /\ recs.recommendations = JArr(<<>>)
    /\ recsCalls = 1
    /\ recsPending = 0
    /\ ~recsLoading

\* C21: after any sequence of toggles and 'Clear all' the comparison
\* selection holds at most 4 countries, all distinct; toggling a country
\* that is not selected while 4 are selected leaves the selection as it is,
\* toggling a selected country removes that country and no other, and the
\* table is rendered exactly when at least 2 countries are selected.
C21_AtMostFourDistinct ==
    input.fn = "CompareContent"
       => /\ Len(selected) <= 4
          /\ \A i, j \in 1..Len(selected) :
                i # j => selected[i] # selected[j]
          /\ \A c \in DOMAIN input.overview :
                /\ (c \notin Range(selected) /\ Len(selected) = 4)
                      => toggleCountry(selected, c) = selected
                /\ (c \notin Range(selected) /\ Len(selected) < 4)
                      => toggleCountry(selected, c) = selected \o <<c>>
                /\ c \in Range(selected)
                      => /\ Range(toggleCountry(selected, c))
                               = Range(selected) \ {c}
                         /\ Len(toggleCountry(selected, c))
                               = Len(selected) - 1
                         /\ \A i, j \in 1..Len(selected) :
                               (i < j /\ selected[i] # c /\ selected[j] # c)
                                  => \E a, b \in
                                        1..Len(toggleCountry(selected, c)) :
                                        /\ a < b
                                        /\ toggleCountry(selected, c)[a]
                                              = selected[i]
                                        /\ toggleCountry(selected, c)[b]
                                              = selected[j]
          /\ CompareTable(selected, input.overview).kind = "table"
                <=> Len(selected) >= 2

\* C21, the case: four countries are selected, a fifth is offered, and the
\* table is rendered
C21_FourSelected ==
    /\ input.fn = "CompareContent"
    /\ Len(selected) = 4
    /\ "Vietnam" \notin Range(selected)
    /\ CompareTable(selected, input.overview).kind = "table"

\* C22: in every row that marks a best value, the cells marked are exactly
\* the cells that hold a value and whose value is the smallest (average
\* delay, geopolitical risk, shipping cost, shipping days, customs days,
\* corporate tax) or the largest (average reliability, political
\* stability) of the values held in that row by the selected countries:
\* equal best values are all marked, a cell without a value is never
\* marked, and a row without any value has no mark.
C22_BestCellsMarked ==
    (input.fn = "CompareContent" /\ Len(selected) >= 2)
       => LET table == CompareTable(selected, input.overview)
              lower == {"avgDelay", "riskScore", "shipping_cost_usd_per_kg",
                        "avg_shipping_days", "customs_clearance_days",
                        "corporate_tax_pct"}
              higher == {"avgReliability", "political_stability"}
              value(k, name) ==
                 MetricValue(getData(input.overview, selected[k]), name)
              held(name) ==
                 {k \in 1..Len(selected) : value(k, name) # JNull}
          IN  /\ {CompareMetrics[i].name : i \in 1..Len(CompareMetrics)}
                    = lower \cup higher
              /\ \A i \in 1..Len(CompareMetrics), k \in 1..Len(selected) :
                    LET name == CompareMetrics[i].name
                    IN  table.cells[i][k] = "text-emerald-400 font-bold"
                           <=> /\ k \in held(name)
                               /\ \A o \in held(name) :
                                     IF name \in lower
                                     THEN value(k, name).n <= value(o, name).n
                                     ELSE value(k, name).n >= value(o, name).n

\* C22, the case: Germany, India, Japan and Vietnam are compared: Germany
\* and Japan tie on the best reliability and both are marked, Germany and
\* India tie on the lowest risk and both are marked, and Vietnam, which has
\* no risk score, is not marked
C22_TieMarkedNullUnmarked ==
    /\ input.fn = "CompareContent"
    /\ selected = <<"Germany", "India", "Japan", "Vietnam">>
    /\ input.overview.Vietnam = <<>>
    /\ LET cells == CompareTable(selected, input.overview).cells
       IN  /\ cells[1] = <<"text-emerald-400 font-bold", "text-zinc-200",
                            "text-emerald-400 font-bold", "text-zinc-200">>
           /\ cells[3][4] = "text-zinc-600"
           /\ cells[3][1] = "text-emerald-400 font-bold"
           /\ cells[3][2] = "text-emerald-400 font-bold"

(***************************************************************************)
(* Properties of failures, restoring and the in-progress flags             *)
(***************************************************************************)
\* C23: when a fetch to a collaborator fails (supplier list, overview,
\* recommendations, analysis), the error shown is the failure's own message
\* whenever it has one, and the generic fallback text only when it has none
C23_OriginalMessageShown ==
    [][/\ \A e \in Failures :
            SuppliersReject(e)
                => error' = MessageOf(e, "Failed to load suppliers. Is the backend running?")
       /\ \A e \in Failures :
            OverviewReject(e)
                => overviewError' = MessageOf(e, "Failed to load overview")
       /\ \A e \in Failures :
            RecsReject(e)
                => recsError' = MessageOf(e, "Failed to load recommendations")
       /\ \A c \in pending, e \in Failures :
            AnalyzeReject(c, e)
                => error' = MessageOf(e, "Analysis failed.")]_vars

\* C23, the case: getSuppliers has failed and the banner shows the fixed
\* text, whatever the failure was
C23_SupplierFailureShownAsFixedText ==
    /\ suppliersReq = "done"
    /\ ~isLoadingSuppliers
    /\ suppliers = <<>>
    /\ error = "Failed to load suppliers. Is the backend running?"

\* C24: restoring from history recalls a past result without invoking the
\* analysis collaborator: restoreFromHistory(entry) selects entry.supplierId,
\* shows entry.data on the analysis tab, issues no analyzeSupplier call and
\* leaves the history in memory and the persisted history as they were
C24_RestoreRecallsWithoutCall ==
    [][\A i \in 1..HISTORY_MAX :
          restoreFromHistory(i)
              => /\ selectedSupplierId' = Entries(history)[i].supplierId
                 /\ analysisData' = Entries(history)[i].data
                 /\ tab' = "analysis"
                 /\ calls' = calls
                 /\ pending' = pending
                 /\ history' = history
                 /\ stored' = stored]_vars

\* C24, the case: the second entry of the history was restored and is shown
\* on the analysis tab, with no call outstanding, below a newer entry
C24_SecondEntryRestored ==
    /\ tab = "analysis"
    /\ ~historyOpen
    /\ pending = {}
    /\ Len(Entries(history)) >= 2
    /\ selectedSupplierId = Entries(history)[2].supplierId
    /\ analysisData = Entries(history)[2].data
    /\ loadHistory(stored) = history

(***************************************************************************)
(* Properties of the onboarding selections and the wizard (SpecOnboard)     *)
(***************************************************************************)
\* how often x is in a list
TimesIn(list, x) == Cardinality({k \in 1..Len(list) : list[k] = x})

\* C25: the raw-material and preferred-country selections have no
\* duplicates, whatever the toggles and company-type changes, from empty or
\* duplicate-free loaded selections; a toggle of an absent item adds it once,
\* a toggle of a present item removes it, and the other items stay
C25_SelectionsWithoutDuplicates ==
    /\ [](/\ \A m \in Materials : TimesIn(rawMaterials, m) <= 1
          /\ \A c \in Countries : TimesIn(preferredCountries, c) <= 1)
    /\ [][/\ \A m \in Materials :
                ToggleMaterial(m)
                    => /\ TimesIn(rawMaterials', m)
                            = (IF Has(rawMaterials, m) THEN 0 ELSE 1)
                       /\ \A x \in Materials \ {m} :
                            TimesIn(rawMaterials', x) = TimesIn(rawMaterials, x)
           /\ \A c \in Countries :
                ToggleCountry(c)
                    => /\ TimesIn(preferredCountries', c)
                            = (IF Has(preferredCountries, c) THEN 0 ELSE 1)
                       /\ \A x \in Countries \ {c} :
                            TimesIn(preferredCountries', x)
                                = TimesIn(preferredCountries, x)]_vars

\* C25, the case: two materials and two countries have been toggled on
C25_TwoOfEachSelected ==
    /\ Shown
    /\ Len(rawMaterials) >= 2
    /\ Len(preferredCountries) >= 2

(***************************************************************************)
(* Properties of overlapping and failed analyses (SpecAnalysis)             *)
(***************************************************************************)
\* C26: the in-progress indicator tracks the outstanding analysis calls:
\* isAnalyzing is true whenever at least one analyzeSupplier call is pending,
\* also when a second analysis was started before the first completed and
\* the first then completes
C26_AnalyzingWhilePending ==
    pending # {} => isAnalyzing

\* C26, the case: the first of two overlapping calls has completed, the
\* second is still pending and the indicator is off
C26_IndicatorOffWhilePending ==
    /\ calls = 2
    /\ Cardinality(pending) = 1
    /\ ~isAnalyzing

\* C27: a failed analysis changes no history: when analyzeSupplier rejects,
\* the history in memory and the persisted history are as before, error is
\* the failure's message and, with no other analysis in flight, analysisData
\* is null and isAnalyzing is false
C27_FailureLeavesHistoryAndNoResult ==
    [][\A c \in pending, e \in Failures :
          AnalyzeReject(c, e)
              => /\ history' = history
                 /\ stored' = stored
                 /\ error' = MessageOf(e, "Analysis failed.")
                 /\ pending' = {} => /\ analysisData' = NoData
                                     /\ ~isAnalyzing']_vars

\* C27, the case: the only analysis of the session has failed, its message
\* is shown, and a result is shown with it
C27_ResultShownAfterOnlyAnalysisFailed ==
    /\ calls = 1
    /\ pending = {}
    /\ ~isAnalyzing
    /\ error \in {"HTTP 500", "Analysis failed."}
    /\ analysisData # NoData

\* C28: the wizard's step is always within 1..4, the submit action is taken
\* at step 4 only, and whatever the edits, company-type changes and
\* Back/Continue clicks, saveOnboardProfile is only called with a non-blank
\* company name, a non-empty company type, at least one raw material and at
\* least one preferred country
C28_OnlyCompleteProfilesSaved ==
    /\ [](/\ step \in 1..4
          /\ \A k \in DOMAIN submit :
                submit[k].saves > 0
                    => /\ Len(trim(submit[k].payload.company_name)) > 0
                       /\ submit[k].payload.company_type # ""
                       /\ Len(submit[k].payload.raw_materials) >= 1
                       /\ Len(submit[k].payload.preferred_countries) >= 1)
    /\ [][handleSubmit => step = 4 /\ step' = 4]_vars

\* C28, the case: saveOnboardProfile was called, from step 4, with a profile
\* of two materials
C28_ProfileSent ==
    /\ Len(submit) = 1
    /\ submit[1].saves >= 1
    /\ Len(submit[1].payload.raw_materials) = 2
    /\ step = 4

(***************************************************************************)
(* Properties of the overview and recommendation panels (SpecFetch)         *)
(***************************************************************************)
\* C29: overview, and likewise recommendations, never shows data and an
\* error together and never shows "not loading" while a fetch is pending:
\* overview and overviewError are not both set, and overviewLoading is true
\* whenever a getSuppliersOverview call is outstanding, whatever the tab
\* switches, failures and successes
C29_DataOrErrorAndLoadingWhilePending ==
    /\ ~(overview /\ overviewError # "")
    /\ ovPending > 0 => overviewLoading
    /\ ~(recs # JNull /\ recsError # "")
    /\ recsPending > 0 => recsLoading

\* C29, the case: a getSuppliersOverview call failed, a later one succeeded,
\* and the overview is held together with the first call's error
C29_OverviewAndErrorTogether ==
    /\ overview
    /\ overviewError # ""
    /\ ovPending = 0
    /\ ~overviewLoading
    /\ ovCalls = 2

\* C30: after every completed record (a successful analysis that records)
\* and every Clear all, the history persisted under sc_history equals the
\* history in memory, same entries in the same order, also when several
\* analyses complete in any interleaving
C30_PersistedEqualsMemory ==
    [][/\ \A c \in pending, score \in Scores :
            (AnalyzeResolve(c, score) /\ Find(c.sups, c.id) # <<>>)
                => /\ loadHistory(stored') = history'
                   /\ Entries(history')[1].supplierId = c.id
       /\ ClearAll
            => /\ loadHistory(stored') = history'
               /\ history' = JArr(<<>>)]_vars

\* C30, the case: two overlapping analyses were recorded, the one started
\* last first, and storage holds the two entries in the order of memory
C30_TwoRecordedOutOfOrder ==
    /\ calls = 2
    /\ pending = {}
    /\ Len(Entries(history)) = 2
    /\ Entries(history)[2].supplierId = selectedSupplierId
    /\ analysisData # NoData
    /\ analysisData.forSupplier = Entries(history)[1].supplierId
    /\ analysisData.forSupplier # selectedSupplierId
    /\ loadHistory(stored) = history

====
